---- MODULE Spec2Model ----
(***************************************************************************)
(* Model of the chess position-selection pipeline of peval-testsets:       *)
(* chess/03_select_games.py (stratified selection with quotas, mate cap,   *)
(* deduplication and resumption) and the pure classification helpers it    *)
(* shares with chess/03_select.py.                                         *)
(*                                                                         *)
(* Specifications:                                                         *)
(*   Spec          the selection stage, run, interrupted and re-run        *)
(*   SpecTargets   the quota arithmetic of main (phase_targets)            *)
(*   SpecPhase     get_phase over boards given as piece counts             *)
(*   SpecClassify  classify_position over multi-PV results                 *)
(*   SpecSample    the reservoir loop of sample_position_from_game         *)
(*   SpecPrivate   the private flag of the question scripts                *)
(*   SpecEvaluate  evaluate_all_moves of the two evaluation scripts        *)
(*   SpecEval      chess/04_create_questions_games.py main, run, killed    *)
(*                 and re-run                                              *)
(*   SpecOrch      chess/generate.py main                                  *)
(*   SpecKey       get_fen4 and calculate_pos_id over boards               *)
(*   SpecClassifyBoth  classify_position of 03_select.py beside that of    *)
(*                 03_select_games.py                                      *)
(*   SpecMerge     the questions of chess/06_create_questions.py           *)
(*   SpecProcess   chess/02_process.py main, run and re-run                *)
(*   SpecStatus    check_questions_status of chess/generate.py             *)
(***************************************************************************)
EXTENDS Integers, Sequences, FiniteSets, TLC

VARIABLES
    csv,                  \* output/positions.csv: the sequence of data rows
    pc,                   \* control point of main(): "idle", "for", "while"
    runs,                 \* number of times main() has been started
    exit_code,            \* -1 running or never run, 0 normal return, 1 traceback, 130 killed
    existing_pos_ids,     \* main: existing_pos_ids
    selected,             \* main: selected, as the length of each cell's list
    mate_positions_count, \* main: mate_positions_count
    bucket_idx,           \* index in GAME_DISTRIBUTION.items() of the for loop
    bucket_current,       \* main: bucket_current
    game_idx,             \* main: game_idx
    new_positions,        \* main: new_positions, in insertion order
    position,             \* main: position (last value returned by the sampler)
    rows_at_start,        \* number of rows the file held when main() last started
    call,                 \* the last call of a pure function: [fn, arg, ret]
    \* 04_create_questions_games.py
    questions_csv,        \* questions.csv: [exists, rows]
    questions_temp,       \* questions_temp.csv: [exists, rows]
    e_pc,                 \* control point of main(): "idle", "loop"
    eval_i,               \* main: i of the loop over positions
    evaluated,            \* main: evaluated, index -> expected_output
    e_queries,            \* indices evaluate_all_moves was called for in this run
    e_done,               \* indices for which some run obtained a move table
    e_runs,               \* number of times main() has been started
    e_exit,               \* exit status of the last run, -1 while running or never run
    \* generate.py
    o_pc,                 \* control point of main(): "idle", "step1" .. "step4", "summary"
    o_args,               \* [force_all, skip_eval]
    o_files,              \* which outputs exist: [games_pgn, games_db, positions_csv, questions]
    o_started,            \* the steps whose script was started in this run, in order
    o_failed,             \* the steps whose script failed in this run
    o_status,             \* exit status of the last run, -1 while running or never run
    o_runs,               \* number of times main() has been started
    \* 02_process.py
    games_pgn,            \* games.pgn: for each game whether should_keep_game keeps it
    games_db,             \* the committed rows of the games table of output/games.db
    p_pc,                 \* control point of main(): "idle", "read"
    game_count,           \* main: game_count, the games read so far
    filtered_count,       \* main: filtered_count
    p_inserted,           \* rows inserted in the open transaction
    p_runs,               \* number of times main() has been started
    p_exit                \* exit status of the last run, -1 while running or never run

vars == <<csv, pc, runs, exit_code, existing_pos_ids, selected,
          mate_positions_count, bucket_idx, bucket_current, game_idx,
          new_positions, position, rows_at_start, call,
          questions_csv, questions_temp, e_pc, eval_i, evaluated, e_queries, e_done,
          e_runs, e_exit,
          o_pc, o_args, o_files, o_started, o_failed, o_status, o_runs,
          games_pgn, games_db, p_pc, game_count, filtered_count, p_inserted, p_runs, p_exit>>

evalVars == <<questions_csv, questions_temp, e_pc, eval_i, evaluated, e_queries, e_done,
              e_runs, e_exit>>

orchVars == <<o_pc, o_args, o_files, o_started, o_failed, o_status, o_runs>>

procVars == <<games_pgn, games_db, p_pc, game_count, filtered_count, p_inserted, p_runs, p_exit>>

stageVars == <<evalVars, orchVars, procVars>>

posVars == <<csv, pc, runs, exit_code, existing_pos_ids, selected,
             mate_positions_count, bucket_idx, bucket_current, game_idx,
             new_positions, position, rows_at_start>>

selVars == <<csv, pc, runs, exit_code, existing_pos_ids, selected,
             mate_positions_count, bucket_idx, bucket_current, game_idx,
             new_positions, position, rows_at_start, stageVars>>

----------------------------------------------------------------------------
(* Configuration of 03_select_games.py *)

MULTI_PV == 4

SALT == "chess_position_salt_v1"

ELO_BUCKET_NAMES == <<"0-1400", "1400-1800", "1800-2200", "2200-2600", "2600+">>

GAME_DISTRIBUTION ==
    [b \in {"0-1400", "1400-1800", "1800-2200", "2200-2600", "2600+"} |->
        CASE b = "0-1400" -> 20
          [] b = "1400-1800" -> 50
          [] b = "1800-2200" -> 70
          [] b = "2200-2600" -> 40
          [] b = "2600+" -> 20]

\* PHASE_RATIOS and TACTICAL_RATIOS in hundredths (0.2 -> 20)
Phases == {"opening", "middlegame", "endgame"}
Types == {"tactical", "quiet"}
Colors == {"white", "black"}

PHASE_RATIOS == [p \in Phases |-> IF p = "middlegame" THEN 60 ELSE 20]

TACTICAL_RATIOS == [p \in Phases |-> IF p = "middlegame" THEN 29 ELSE 28]

\* 4% mate cap, in hundredths
MATE_RATIO == 4

----------------------------------------------------------------------------
(* Quota arithmetic: main, lines 488-500 *)

\* Python's int(n * r) for a ratio r = pct/100 and an integer n >= 0.  The
\* double product truncates to floor(n*pct/100) for every n < 100 and every
\* ratio used here (the first n where the double falls short is
\* int(100 * 0.29) = 28); all arguments of the model stay below that.
PyIntMul(n, pct) == (n * pct) \div 100

split_color_RoundsBoth(count) ==
    [white |-> (count + 1) \div 2, black |-> (count + 1) \div 2]

\* {"white": count // 2, "black": (count + 1) // 2}
split_color(count) ==
    [white |-> count \div 2, black |-> (count + 1) \div 2]

phase_targets(target_count) ==
    [phase \in Phases |->
        LET phase_count == PyIntMul(target_count, PHASE_RATIOS[phase])
            tactical_count == PyIntMul(phase_count, TACTICAL_RATIOS[phase])
            quiet_count == phase_count - tactical_count
        IN  [tactical |-> split_color(tactical_count),
             quiet |-> split_color(quiet_count),
             phase_count |-> phase_count,
             tactical_count |-> tactical_count,
             quiet_count |-> quiet_count]]

----------------------------------------------------------------------------
(* get_phase: 03_select_games.py lines 69-104 (03_select.py 78-112) *)

\* A board is given by its piece counts: queens per side, and pawns, minor
\* pieces (knights and bishops, 3 each) and rooks of both sides together.
PAWN_VALUE == 1
MINOR_VALUE == 3
ROOK_VALUE == 5
QUEEN_VALUE == 9

get_material_count(board) ==
    PAWN_VALUE * board.pawns + MINOR_VALUE * board.minors
        + ROOK_VALUE * board.rooks + QUEEN_VALUE * (board.wq + board.bq)

\* bool(board.pieces(QUEEN, WHITE) or board.pieces(QUEEN, BLACK))
has_queens(board) == board.wq > 0 \/ board.bq > 0

get_phase_PlyStrict(board, ply) ==
    LET material == get_material_count(board)
    IN  IF ply < 20 /\ has_queens(board) /\ material >= 26 THEN "opening"
        ELSE IF material <= 14 THEN "endgame"
        ELSE "middlegame"

get_phase(board, ply) ==
    LET material == get_material_count(board)
    IN  IF ply <= 20 /\ has_queens(board) /\ material >= 26 THEN "opening"
        ELSE IF material <= 14 THEN "endgame"
        ELSE "middlegame"

----------------------------------------------------------------------------
(* classify_position: 03_select_games.py lines 156-245 *)

Abs(x) == IF x < 0 THEN -x ELSE x

\* One entry of the engine's multi-PV result.  kind is "cp" (value = the
\* relative centipawn score), "mate" (value = the relative mate distance) or
\* "none" (the entry has no score or no pv).
cp_score(pv_info) ==
    IF pv_info.kind = "mate"
    THEN (IF pv_info.value > 0 THEN 10000 ELSE -10000)
    ELSE pv_info.value

RECURSIVE top_moves_of(_)
top_moves_of(info) ==
    IF info = <<>> THEN <<>>
    ELSE IF Head(info).kind = "none" THEN top_moves_of(Tail(info))
    ELSE <<cp_score(Head(info))>> \o top_moves_of(Tail(info))

Gap(top_moves) ==
    IF Len(top_moves) > 1 THEN Abs(top_moves[1] - top_moves[2]) ELSE 0

GoodMoveCount(top_moves) ==
    Cardinality({i \in 1..Len(top_moves) : Abs(top_moves[i] - top_moves[1]) <= 50})

\* lines 221-227: "a or b or c and d or e" binds as a or b or (c and d) or e
tactical_criteria(phase, gap, is_check_capture, best_eval, good_move_count) ==
    \/ (phase \in {"opening", "middlegame"} /\ gap >= 100)
    \/ (phase = "endgame" /\ gap >= 60)
    \/ (is_check_capture /\ best_eval > 100)
    \/ good_move_count <= 2

classify_position_NoDefault(phase, info, is_check_capture) ==
    LET top_moves == top_moves_of(SubSeq(info, 1, IF Len(info) < MULTI_PV THEN Len(info) ELSE MULTI_PV))
    IN  IF info = <<>> \/ top_moves = <<>>
        THEN [is_tactical |-> TRUE, is_mate |-> FALSE]
        ELSE
        LET best_eval == top_moves[1]
            mate == Abs(best_eval) >= 10000
        IN  [is_tactical |-> mate \/ tactical_criteria(phase, Gap(top_moves), is_check_capture,
                                                       best_eval, GoodMoveCount(top_moves)),
             is_mate |-> mate]

\* Returns [is_tactical, is_mate].  info is the engine result cut to MULTI_PV
\* entries; is_check_capture is is_capture_or_check(board, best_move).
classify_position(phase, info, is_check_capture) ==
    LET top_moves == top_moves_of(SubSeq(info, 1, IF Len(info) < MULTI_PV THEN Len(info) ELSE MULTI_PV))
    IN  IF info = <<>> \/ top_moves = <<>>
        THEN [is_tactical |-> TRUE, is_mate |-> FALSE]
        ELSE
        LET best_eval == top_moves[1]
            gap == Gap(top_moves)
            good_move_count == GoodMoveCount(top_moves)
            mate == Abs(best_eval) >= 10000
            t1 == mate \/ tactical_criteria(phase, gap, is_check_capture,
                                            best_eval, good_move_count)
            confirmed_quiet ==
                /\ ~t1
                /\ \/ (phase \in {"opening", "middlegame"} /\ gap <= 30)
                   \/ (phase = "endgame" /\ gap <= 20)
                /\ ~is_check_capture
                /\ good_move_count >= 3
        IN  [is_tactical |-> IF confirmed_quiet THEN FALSE ELSE TRUE,
             is_mate |-> mate]

----------------------------------------------------------------------------
(* Position key: 03_select_games.py lines 107-143 *)

\* A board of the corpus: placement names the piece placement, turn the side
\* to move, ep_square the raw en-passant target left by the last move (0 for
\* none, else the square number 8 * rank + file counted from a1 = 0), pawns
\* the squares of the pawns of the side to move, and legal_ep the squares s
\* for which Move(s, ep_square) is in board.legal_moves; pieces are the piece
\* counts get_phase reads.
normalize_en_passant_Raw(board) ==
    IF board.ep_square = 0 THEN "-" ELSE ToString(board.ep_square)

normalize_en_passant_NoLegalTest(board) ==
    IF board.ep_square = 0 THEN "-"
    ELSE IF board.turn = "w"
    THEN (IF \E square \in board.pawns :
                 square + 7 = board.ep_square \/ square + 9 = board.ep_square
          THEN ToString(board.ep_square) ELSE "-")
    ELSE (IF \E square \in board.pawns :
                 square - 7 = board.ep_square \/ square - 9 = board.ep_square
          THEN ToString(board.ep_square) ELSE "-")

normalize_en_passant(board) ==
    IF board.ep_square = 0 THEN "-"
    ELSE IF board.turn = "w"
    THEN (IF \E square \in board.pawns :
                 /\ (square + 7 = board.ep_square \/ square + 9 = board.ep_square)
                 /\ square \in board.legal_ep
          THEN ToString(board.ep_square) ELSE "-")
    ELSE (IF \E square \in board.pawns :
                 /\ (square - 7 = board.ep_square \/ square - 9 = board.ep_square)
                 /\ square \in board.legal_ep
          THEN ToString(board.ep_square) ELSE "-")

\* board.fen() of python-chess: six fields, the en-passant field being the
\* target square only when an en-passant capture is legal (its default
\* en_passant="legal")
BoardFen(board) ==
    <<board.placement, board.turn, board.castling,
      IF board.ep_square # 0 /\ board.legal_ep # {} THEN ToString(board.ep_square) ELSE "-",
      board.halfmove, board.fullmove>>

get_fen4_KeepsClock(board) ==
    LET fen_parts == BoardFen(board)
    IN  <<fen_parts[1], fen_parts[2], fen_parts[3], normalize_en_passant(board), fen_parts[5]>>

get_fen4(board) ==
    LET fen_parts == BoardFen(board)
    IN  <<fen_parts[1], fen_parts[2], fen_parts[3], normalize_en_passant(board)>>

\* sha256(SALT + fen4): injective on the keys of the corpus
calculate_pos_id(fen4) == <<SALT, fen4>>

\* load_existing_positions, lines 336-337: the id recomputed from a row's fen
RowPosId(row) == calculate_pos_id(SubSeq(row.fen, 1, 4))

----------------------------------------------------------------------------
(* The filtered game store (output/games.db) the runs read *)

\* Bounds of the corpus and of the exploration
NumGames == 22
MaxRuns == 2

ELO_RANGES == <<<<0, 1400>>, <<1400, 1800>>, <<1800, 2200>>, <<2200, 2600>>, <<2600, 9999>>>>

get_elo_bucket(avg_elo) ==
    IF \E i \in 1..Len(ELO_RANGES) : ELO_RANGES[i][1] <= avg_elo /\ avg_elo < ELO_RANGES[i][2]
    THEN ELO_BUCKET_NAMES[CHOOSE i \in 1..Len(ELO_RANGES) :
            /\ ELO_RANGES[i][1] <= avg_elo /\ avg_elo < ELO_RANGES[i][2]
            /\ \A j \in 1..(i - 1) : ~(ELO_RANGES[j][1] <= avg_elo /\ avg_elo < ELO_RANGES[j][2])]
    ELSE ELO_BUCKET_NAMES[Len(ELO_BUCKET_NAMES)]

\* The entries of GAME_DISTRIBUTION the store has games for, in dict order.
\* The other three buckets are left out of the runs of the model: their loops
\* run the same code over other targets.
ModelBuckets == <<"0-1400", "2600+">>

BucketNo(b) == CHOOSE i \in 1..Len(ELO_BUCKET_NAMES) : ELO_BUCKET_NAMES[i] = b

\* Piece counts, ply and engine result of each kind of position in the store
KitOf(phase) ==
    CASE phase = "opening" -> [wq |-> 1, bq |-> 1, pawns |-> 16, minors |-> 8, rooks |-> 4]
      [] phase = "middlegame" -> [wq |-> 1, bq |-> 1, pawns |-> 10, minors |-> 4, rooks |-> 4]
      [] phase = "endgame" -> [wq |-> 0, bq |-> 0, pawns |-> 6, minors |-> 1, rooks |-> 1]

PlyOf(phase, color) ==
    (CASE phase = "opening" -> 10 [] phase = "middlegame" -> 30 [] phase = "endgame" -> 60)
        + (IF color = "white" THEN 0 ELSE 1)

InfoOf(kind) ==
    CASE kind = "quiet" -> <<[kind |-> "cp", value |-> 20], [kind |-> "cp", value |-> 15],
                             [kind |-> "cp", value |-> 10], [kind |-> "cp", value |-> 5]>>
      [] kind = "tactical" -> <<[kind |-> "cp", value |-> 300], [kind |-> "cp", value |-> 50]>>
      [] kind = "mate" -> <<[kind |-> "mate", value |-> 3], [kind |-> "cp", value |-> 200]>>

\* One eligible ply of a game: the ply number, the board after it, and what
\* the engine and the rules library answer for that board
Candidate(placement, phase, kind, color, halfmove, ep_square) ==
    [ply |-> PlyOf(phase, color),
     board |-> [placement |-> placement,
                turn |-> IF color = "white" THEN "w" ELSE "b",
                castling |-> "-",
                ep_square |-> ep_square,
                pawns |-> {},
                legal_ep |-> {},
                halfmove |-> halfmove,
                fullmove |-> PlyOf(phase, color) \div 2 + 1,
                pieces |-> KitOf(phase)],
     info |-> InfoOf(kind),
     is_check_capture |-> FALSE]

\* The cells the games of a bucket land in, game after game
SlotPattern ==
    << <<"middlegame", "quiet", "white">>, <<"opening", "quiet", "black">>,
       <<"middlegame", "quiet", "black">>, <<"endgame", "quiet", "white">>,
       <<"middlegame", "quiet", "black">>, <<"middlegame", "tactical", "black">>,
       <<"opening", "quiet", "white">>, <<"middlegame", "quiet", "white">>,
       <<"endgame", "quiet", "black">>, <<"middlegame", "quiet", "black">>,
       <<"middlegame", "tactical", "white">>, <<"opening", "tactical", "black">>,
       <<"middlegame", "quiet", "white">>, <<"endgame", "tactical", "black">>,
       <<"middlegame", "quiet", "black">>, <<"opening", "quiet", "black">>,
       <<"middlegame", "tactical", "black">>, <<"middlegame", "quiet", "white">>,
       <<"endgame", "quiet", "black">>, <<"middlegame", "quiet", "black">> >>

Primary(b, g) ==
    LET n == IF g < 4 THEN g ELSE g - 1
        slot == SlotPattern[((n - 1) % Len(SlotPattern)) + 1]
    IN  Candidate(100 * b + g, slot[1], slot[2], slot[3], 0, 0)

\* The eligible plies of game g of bucket number b.  Game 4 has none; game 3
\* also reaches the position of game 2 of the first bucket by another move
\* order (other counters, an en-passant target no pawn can take); game 5, and
\* game 8 of the first bucket, also pass through a position with a forced mate.
EligiblePlies(b, g) ==
    IF g = 4 THEN {}
    ELSE {Primary(b, g)} \cup
         (CASE g = 3 -> {Candidate(102, "opening", "quiet", "black", 2, 23)}
            [] g = 5 -> {Candidate(100 * b + 51, "middlegame", "mate", "black", 0, 0)}
            [] g = 8 /\ b = 1 -> {Candidate(100 * b + 52, "middlegame", "mate", "white", 0, 0)}
            [] OTHER -> {})

\* SELECT game_id, moves_uci, avg_elo ... ORDER BY rand_key, for one bucket
GamesOf(elo_bucket) ==
    LET b == BucketNo(elo_bucket)
    IN  [g \in 1..NumGames |->
            [game_id |-> 100 * b + g,
             avg_elo |-> ELO_RANGES[b][1] + g,
             plies |-> EligiblePlies(b, g)]]

----------------------------------------------------------------------------
(* sample_position_from_game: lines 248-315 *)

\* The Position built from the selected ply (lines 289-315)
MakePosition(game, cand) ==
    LET phase == get_phase(cand.board.pieces, cand.ply)
        fen4 == get_fen4(cand.board)
        cls == classify_position(phase, cand.info, cand.is_check_capture)
    IN  [pos_id |-> calculate_pos_id(fen4),
         fen |-> BoardFen(cand.board),
         game_id |-> game.game_id,
         phase |-> phase,
         side_to_move |-> IF cand.board.turn = "w" THEN "white" ELSE "black",
         elo_bucket |-> get_elo_bucket(game.avg_elo),
         is_tactical |-> cls.is_tactical,
         is_mate |-> cls.is_mate]

None == [pos_id |-> <<>>]

\* What one call can return: None when the game has no eligible ply, else
\* the Position of any one of its eligible plies (the reservoir's choice)
sample_position_from_game(game) ==
    IF game.plies = {} THEN {None}
    ELSE {MakePosition(game, cand) : cand \in game.plies}

----------------------------------------------------------------------------
(* load_existing_positions and write_positions_incremental: lines 318-419 *)

Cells == {<<b, ph, ty, co>> : b \in {ModelBuckets[i] : i \in 1..Len(ModelBuckets)},
                              ph \in Phases, ty \in Types, co \in Colors}

RowCell(row) == <<row.elo_bucket, row.phase, row.type, row.color>>

TypeKey(p) == IF p.is_tactical THEN "tactical" ELSE "quiet"

\* existing_pos_ids as rebuilt from the file
load_ids(rows) == {RowPosId(rows[i]) : i \in 1..Len(rows)}

load_selected_ByBucket(rows) ==
    [c \in Cells |-> Cardinality({i \in 1..Len(rows) :
                        rows[i].elo_bucket = c[1] /\ rows[i].phase = c[2]})]

\* selected as rebuilt from the file: each row appended to the list of its labels
load_selected(rows) ==
    [c \in Cells |-> Cardinality({i \in 1..Len(rows) : RowCell(rows[i]) = c})]

\* The rows one call of write_positions_incremental appends for the buffer:
\* the nested dicts are walked in insertion order (phase, then type, then
\* color, then the list)
WriteOrder(buf) ==
    LET n == Len(buf)
        F1(i) == CHOOSE j \in 1..n : /\ buf[j].phase = buf[i].phase
                    /\ \A k \in 1..(j - 1) : buf[k].phase # buf[i].phase
        Same2(i, j) == buf[j].phase = buf[i].phase /\ TypeKey(buf[j]) = TypeKey(buf[i])
        F2(i) == CHOOSE j \in 1..n : Same2(i, j) /\ \A k \in 1..(j - 1) : ~Same2(i, k)
        Same3(i, j) == Same2(i, j) /\ buf[j].side_to_move = buf[i].side_to_move
        F3(i) == CHOOSE j \in 1..n : Same3(i, j) /\ \A k \in 1..(j - 1) : ~Same3(i, k)
        Before(i, j) ==
            \/ F1(i) < F1(j)
            \/ F1(i) = F1(j) /\ F2(i) < F2(j)
            \/ F1(i) = F1(j) /\ F2(i) = F2(j) /\ F3(i) < F3(j)
            \/ F1(i) = F1(j) /\ F2(i) = F2(j) /\ F3(i) = F3(j) /\ i < j
    IN  [k \in 1..n |->
            buf[CHOOSE i \in 1..n : Cardinality({j \in 1..n : Before(j, i)}) = k - 1]]

RowOf(p) ==
    [game_id |-> p.game_id, fen |-> p.fen, elo_bucket |-> p.elo_bucket,
     phase |-> p.phase, type |-> TypeKey(p), color |-> p.side_to_move]

write_positions_incremental(rows, buf) ==
    rows \o [k \in 1..Len(buf) |-> RowOf(WriteOrder(buf)[k])]

----------------------------------------------------------------------------
(* main: lines 422-638 *)

RECURSIVE SumTargets(_)
SumTargets(i) ==
    IF i = 0 THEN 0 ELSE GAME_DISTRIBUTION[ModelBuckets[i]] + SumTargets(i - 1)

\* sum(GAME_DISTRIBUTION.values())
total_target == SumTargets(Len(ModelBuckets))

MAX_MATE_POSITIONS == PyIntMul(total_target, MATE_RATIO)

\* The cells in a fixed order, to add up over them
RECURSIVE SeqOfSet(_)
SeqOfSet(S) ==
    IF S = {} THEN <<>>
    ELSE LET x == CHOOSE x \in S : TRUE IN <<x>> \o SeqOfSet(S \ {x})

CellList == SeqOfSet(Cells)

RECURSIVE SumFirst(_, _, _)
SumFirst(f, elo_buckets, n) ==
    IF n = 0 THEN 0
    ELSE (IF CellList[n][1] \in elo_buckets THEN f[CellList[n]] ELSE 0)
            + SumFirst(f, elo_buckets, n - 1)

\* the sum of the lengths of the lists of selected, over all buckets
TotalCount(sel) ==
    SumFirst(sel, {ModelBuckets[i] : i \in 1..Len(ModelBuckets)}, Len(CellList))

\* the same sum over selected[elo_bucket]
BucketCount(sel, elo_bucket) == SumFirst(sel, {elo_bucket}, Len(CellList))

CellTarget(c) == phase_targets(GAME_DISTRIBUTION[c[1]])[c[2]][c[3]][c[4]]

NoSelected == [c \in Cells |-> 0]

SelInit ==
    /\ csv = <<>>
    /\ pc = "idle"
    /\ runs = 0
    /\ exit_code = -1
    /\ existing_pos_ids = {}
    /\ selected = NoSelected
    /\ mate_positions_count = 0
    /\ bucket_idx = 0
    /\ bucket_current = 0
    /\ game_idx = 0
    /\ new_positions = <<>>
    /\ position = None
    /\ rows_at_start = 0

\* lines 444-472: load the file, reset the mate counter, return at once when
\* the file already holds the whole target
StartRun ==
    /\ pc = "idle"
    /\ runs < MaxRuns
    /\ runs' = runs + 1
    /\ existing_pos_ids' = load_ids(csv)
    /\ selected' = load_selected(csv)
    /\ mate_positions_count' = 0
    /\ bucket_current' = 0
    /\ game_idx' = 0
    /\ new_positions' = <<>>
    /\ position' = None
    /\ rows_at_start' = Len(csv)
    /\ IF TotalCount(selected') >= total_target
       THEN pc' = "idle" /\ exit_code' = 0 /\ bucket_idx' = 0
       ELSE pc' = "for" /\ exit_code' = -1 /\ bucket_idx' = 1
    /\ UNCHANGED <<csv, call, stageVars>>

\* lines 485-535: the head of the for loop over GAME_DISTRIBUTION
ForBucket ==
    /\ pc = "for"
    /\ bucket_idx <= Len(ModelBuckets)
    /\ LET elo_bucket == ModelBuckets[bucket_idx]
           target_count == GAME_DISTRIBUTION[elo_bucket]
           current == BucketCount(selected, elo_bucket)
       IN  /\ bucket_current' = current
           /\ IF current >= target_count
              THEN /\ bucket_idx' = bucket_idx + 1
                   /\ pc' = "for"
                   /\ UNCHANGED <<game_idx, new_positions>>
              ELSE /\ game_idx' = 0
                   /\ new_positions' = <<>>
                   /\ pc' = "while"
                   /\ UNCHANGED bucket_idx
    /\ UNCHANGED <<csv, runs, exit_code, existing_pos_ids, selected,
                   mate_positions_count, position, rows_at_start, call, stageVars>>

WhileCondition_NoTargetTest == game_idx < NumGames

\* line 537
WhileCondition ==
    /\ game_idx < NumGames
    /\ bucket_current < GAME_DISTRIBUTION[ModelBuckets[bucket_idx]]

Accepts_OffByOne(p, ids, mates, sel, elo_bucket) ==
    /\ p # None
    /\ p.pos_id \notin ids
    /\ ~(p.is_mate /\ mates >= MAX_MATE_POSITIONS)
    /\ sel[<<elo_bucket, p.phase, TypeKey(p), p.side_to_move>>]
          <= phase_targets(GAME_DISTRIBUTION[elo_bucket])[p.phase][TypeKey(p)][p.side_to_move]

Accepts_NoDupTest(p, ids, mates, sel, elo_bucket) ==
    /\ p # None
    /\ ~(p.is_mate /\ mates >= MAX_MATE_POSITIONS)
    /\ sel[<<elo_bucket, p.phase, TypeKey(p), p.side_to_move>>]
          < phase_targets(GAME_DISTRIBUTION[elo_bucket])[p.phase][TypeKey(p)][p.side_to_move]

Accepts_NoMateCap(p, ids, mates, sel, elo_bucket) ==
    /\ p # None
    /\ p.pos_id \notin ids
    /\ sel[<<elo_bucket, p.phase, TypeKey(p), p.side_to_move>>]
          < phase_targets(GAME_DISTRIBUTION[elo_bucket])[p.phase][TypeKey(p)][p.side_to_move]

\* lines 553-568: the three tests between the sampler and the append
Accepts(p, ids, mates, sel, elo_bucket) ==
    /\ p # None
    /\ p.pos_id \notin ids
    /\ ~(p.is_mate /\ mates >= MAX_MATE_POSITIONS)
    /\ sel[<<elo_bucket, p.phase, TypeKey(p), p.side_to_move>>]
          < phase_targets(GAME_DISTRIBUTION[elo_bucket])[p.phase][TypeKey(p)][p.side_to_move]

FLUSH_EVERY == 10

\* lines 537-604: one iteration of the while loop
WhileStep ==
    /\ pc = "while"
    /\ WhileCondition
    /\ LET elo_bucket == ModelBuckets[bucket_idx]
           game == GamesOf(elo_bucket)[game_idx + 1]
       IN  \E p \in sample_position_from_game(game) :
            /\ game_idx' = game_idx + 1
            /\ position' = p
            /\ IF Accepts(p, existing_pos_ids, mate_positions_count, selected, elo_bucket)
               THEN LET cell == <<elo_bucket, p.phase, TypeKey(p), p.side_to_move>>
                        buf == Append(new_positions, p)
                    IN  /\ selected' = [selected EXCEPT ![cell] = @ + 1]
                        /\ existing_pos_ids' = existing_pos_ids \cup {p.pos_id}
                        /\ bucket_current' = bucket_current + 1
                        /\ mate_positions_count' =
                              IF p.is_mate THEN mate_positions_count + 1
                              ELSE mate_positions_count
                        /\ IF Len(buf) % FLUSH_EVERY = 0
                           THEN /\ csv' = write_positions_incremental(csv, buf)
                                /\ new_positions' = <<>>
                           ELSE /\ new_positions' = buf
                                /\ UNCHANGED csv
               ELSE UNCHANGED <<selected, existing_pos_ids, bucket_current,
                                mate_positions_count, new_positions, csv>>
    /\ UNCHANGED <<pc, runs, exit_code, bucket_idx, rows_at_start, call, stageVars>>

\* as WhileExit, without the write of lines 612-613
WhileExit_NoFlush ==
    /\ pc = "while"
    /\ ~WhileCondition
    /\ bucket_idx' = bucket_idx + 1
    /\ pc' = "for"
    /\ UNCHANGED <<csv, runs, exit_code, existing_pos_ids, selected, mate_positions_count,
                   bucket_current, game_idx, new_positions, position, rows_at_start, call, stageVars>>

\* lines 606-617: the loop is left and what is still buffered is written
WhileExit ==
    /\ pc = "while"
    /\ ~WhileCondition
    /\ csv' = IF new_positions # <<>>
              THEN write_positions_incremental(csv, new_positions) ELSE csv
    /\ bucket_idx' = bucket_idx + 1
    /\ pc' = "for"
    /\ UNCHANGED <<runs, exit_code, existing_pos_ids, selected, mate_positions_count,
                   bucket_current, game_idx, new_positions, position, rows_at_start, call, stageVars>>

\* lines 619-638: every bucket was visited; main returns
Finish ==
    /\ pc = "for"
    /\ bucket_idx > Len(ModelBuckets)
    /\ pc' = "idle"
    /\ exit_code' = 0
    /\ UNCHANGED <<csv, runs, existing_pos_ids, selected, mate_positions_count,
                   bucket_idx, bucket_current, game_idx, new_positions, position, rows_at_start, call, stageVars>>

\* The process is killed between two loop steps (Ctrl-C, power loss): its
\* memory, the buffer included, is gone; the file keeps what was written
Interrupt ==
    /\ pc \in {"for", "while"}
    /\ pc' = "idle"
    /\ exit_code' = 130
    /\ existing_pos_ids' = {}
    /\ selected' = NoSelected
    /\ mate_positions_count' = 0
    /\ bucket_idx' = 0
    /\ bucket_current' = 0
    /\ game_idx' = 0
    /\ new_positions' = <<>>
    /\ position' = None
    /\ rows_at_start' = Len(csv)
    /\ UNCHANGED <<csv, runs, call, stageVars>>

\* engine.analyse raises inside classify_position (lines 164-166), which
\* sample_position_from_game calls for the board it selected (line 298).
\* Nothing between that call and the top of main catches the exception: the
\* process ends with a traceback and status 1, its buffer unwritten.
EngineFailure ==
    /\ pc = "while"
    /\ WhileCondition
    /\ GamesOf(ModelBuckets[bucket_idx])[game_idx + 1].plies # {}
    /\ pc' = "idle"
    /\ exit_code' = 1
    /\ existing_pos_ids' = {}
    /\ selected' = NoSelected
    /\ mate_positions_count' = 0
    /\ bucket_idx' = 0
    /\ bucket_current' = 0
    /\ game_idx' = 0
    /\ new_positions' = <<>>
    /\ position' = None
    /\ rows_at_start' = Len(csv)
    /\ UNCHANGED <<csv, runs, call, stageVars>>

NoCall == [fn |-> "none"]

NoFile == [exists |-> FALSE, rows |-> <<>>]

\* the evaluation stage before its first run, no questions.csv yet
EvalIdle ==
    /\ questions_temp = NoFile
    /\ e_pc = "idle"
    /\ eval_i = 0
    /\ evaluated = <<>>
    /\ e_queries = {}
    /\ e_done = {}
    /\ e_runs = 0
    /\ e_exit = -1

\* the orchestrator before its first run
OrchIdle ==
    /\ o_pc = "idle"
    /\ o_args = [force_all |-> FALSE, skip_eval |-> FALSE]
    /\ o_files = [games_pgn |-> FALSE, games_db |-> FALSE, positions_csv |-> FALSE,
                  questions |-> "absent"]
    /\ o_started = <<>>
    /\ o_failed = {}
    /\ o_status = -1
    /\ o_runs = 0

\* 02_process.py before its first run, no output/games.db yet
ProcIdle ==
    /\ games_db = {}
    /\ p_pc = "idle"
    /\ game_count = 0
    /\ filtered_count = 0
    /\ p_inserted = {}
    /\ p_runs = 0
    /\ p_exit = -1

Init ==
    /\ SelInit /\ call = NoCall /\ questions_csv = NoFile /\ EvalIdle /\ OrchIdle
    /\ ProcIdle /\ games_pgn = <<>>

Next ==
    StartRun \/ ForBucket \/ WhileStep \/ WhileExit \/ Finish \/ Interrupt \/ EngineFailure

Spec == Init /\ [][Next]_vars

----------------------------------------------------------------------------
(* Specifications of the pure functions: one call, on any input of the bounds *)

MaxTarget == 150

CallPhaseTargets ==
    /\ call = NoCall
    /\ \E t \in 0..MaxTarget :
          call' = [fn |-> "phase_targets", arg |-> t, ret |-> phase_targets(t)]
    /\ UNCHANGED selVars

SpecTargets == Init /\ [][CallPhaseTargets]_vars

MaxPawns == 4
MaxMinors == 4
MaxRooks == 4
MaxPly == 22

Boards ==
    [wq : {0, 1}, bq : {0, 1}, pawns : 0..MaxPawns, minors : 0..MaxMinors,
     rooks : 0..MaxRooks]

CallGetPhase ==
    /\ call = NoCall
    /\ \E board \in Boards, ply \in 1..MaxPly :
          call' = [fn |-> "get_phase", arg |-> [board |-> board, ply |-> ply],
                   ret |-> get_phase(board, ply)]
    /\ UNCHANGED selVars

SpecPhase == Init /\ [][CallGetPhase]_vars

\* Entries of a multi-PV result: scores around every threshold of the
\* classifier below a best score of 200, both mate signs, and an entry
\* without score
PvEntries ==
    {[kind |-> "cp", value |-> v] : v \in {200, 180, 179, 170, 169, 150, 149, 141, 140, 100}}
        \cup {[kind |-> "mate", value |-> 2], [kind |-> "mate", value |-> -2],
              [kind |-> "none", value |-> 0]}

Infos == UNION {[1..n -> PvEntries] : n \in 0..MULTI_PV}

CallClassify ==
    /\ call = NoCall
    /\ \E phase \in Phases, info \in Infos, cc \in BOOLEAN :
          call' = [fn |-> "classify_position",
                   arg |-> [phase |-> phase, info |-> info, is_check_capture |-> cc],
                   ret |-> classify_position(phase, info, cc)]
    /\ UNCHANGED selVars

SpecClassify == Init /\ [][CallClassify]_vars

----------------------------------------------------------------------------
(* Properties of the selection stage *)

RowsOfCell(c) == Cardinality({i \in 1..Len(csv) : RowCell(csv[i]) = c})

\* every cell's target, as main computes it for the cell's bucket
AllTargets == [c \in Cells |-> CellTarget(c)]

\* C1: no quota cell ever holds more accepted positions than its target, in
\* memory or in the file, and the accepted positions never outnumber the sum
\* of all cell targets.
C1_QuotaNeverExceeded ==
    /\ \A c \in Cells : selected[c] <= AllTargets[c] /\ RowsOfCell(c) <= AllTargets[c]
    /\ TotalCount(selected) <= TotalCount(AllTargets)
    /\ Len(csv) <= TotalCount(AllTargets)

PositionCell == <<ModelBuckets[bucket_idx], position.phase, TypeKey(position),
                  position.side_to_move>>

\* a position was just turned away because its cell is full
C1_Witness ==
    /\ pc = "while"
    /\ position # None
    /\ position.pos_id \notin existing_pos_ids
    /\ ~position.is_mate
    /\ selected[PositionCell] = AllTargets[PositionCell]
    /\ AllTargets[PositionCell] > 0

\* C2: the output file never holds two rows with the same position
\* identifier, whatever runs, interruptions and restarts came before.
C2_NoDuplicateIdentifier ==
    Cardinality({RowPosId(csv[i]) : i \in 1..Len(csv)}) = Len(csv)

\* a resumed run samples a transposition of a position the file already holds
C2_Witness ==
    /\ runs >= 2
    /\ pc = "while"
    /\ position # None
    /\ rows_at_start > 0
    /\ \E i \in 1..rows_at_start :
          RowPosId(csv[i]) = position.pos_id /\ csv[i].fen # position.fen

\* the twelve cell targets of a bucket add up to the bucket's target, so that
\* bucket_current reaches the target exactly when every cell is full
CellTargetsCoverBucket(elo_bucket) ==
    LET t == phase_targets(GAME_DISTRIBUTION[elo_bucket])
    IN  t["opening"].phase_count + t["middlegame"].phase_count + t["endgame"].phase_count
            = GAME_DISTRIBUTION[elo_bucket]

BucketCellsFull(elo_bucket) ==
    \A c \in Cells : c[1] = elo_bucket => selected[c] >= AllTargets[c]

\* C3: the while loop of a bucket consumes one more game at every step and
\* never more than the list holds, so it terminates; it steps only while some
\* cell of the bucket is short and a game is left, it is left only when every
\* cell is full or the list is exhausted, and it can always either step or
\* be left; once every bucket was visited main returns with status 0 whether
\* or not the cells are full.
C3_LoopTerminatesExactly ==
    /\ [](\A b \in DOMAIN GAME_DISTRIBUTION : CellTargetsCoverBucket(b))
    /\ [](pc = "while" =>
            /\ game_idx <= NumGames
            /\ WhileCondition =>
                  sample_position_from_game(
                      GamesOf(ModelBuckets[bucket_idx])[game_idx + 1]) # {}
            /\ ~WhileCondition => ENABLED WhileExit)
    /\ [][pc = "while" /\ pc' = "while" =>
            /\ game_idx' = game_idx + 1
            /\ ~BucketCellsFull(ModelBuckets[bucket_idx])
            /\ game_idx < NumGames]_vars
    /\ [][pc = "while" /\ pc' = "for" =>
            \/ BucketCellsFull(ModelBuckets[bucket_idx])
            \/ game_idx = NumGames]_vars
    /\ [](pc = "for" /\ bucket_idx > Len(ModelBuckets) => ENABLED Finish)
    /\ [][pc = "for" /\ pc' = "idle" /\ exit_code' # 130 => exit_code' = 0]_vars

\* a run has returned normally with a cell still short of its target
C3_Witness ==
    /\ pc = "idle"
    /\ exit_code = 0
    /\ bucket_idx > Len(ModelBuckets)
    /\ \E c \in Cells : selected[c] < AllTargets[c]
    /\ game_idx = NumGames

Rejected(p) ==
    \/ p.pos_id \in existing_pos_ids
    \/ p.is_mate /\ mate_positions_count >= MAX_MATE_POSITIONS
    \/ selected[<<ModelBuckets[bucket_idx], p.phase, TypeKey(p), p.side_to_move>>]
          >= AllTargets[<<ModelBuckets[bucket_idx], p.phase, TypeKey(p), p.side_to_move>>]

\* C4: a step that samples a position which is a duplicate, a mate beyond
\* the cap, or for a full cell changes no cell count, neither the known
\* identifiers, the mate counter, the buffer nor the file, and stays in the
\* loop with the next game.
C4_RejectionChangesNothing ==
    [][(pc = "while" /\ game_idx' = game_idx + 1 /\ position' # None /\ Rejected(position'))
        => /\ UNCHANGED <<selected, existing_pos_ids, mate_positions_count,
                          new_positions, csv, bucket_current>>
           /\ pc' = "while"]_vars

\* a mate position was just turned away by the cap alone
C4_Witness ==
    /\ pc = "while"
    /\ position # None
    /\ position.is_mate
    /\ position.pos_id \notin existing_pos_ids
    /\ mate_positions_count >= MAX_MATE_POSITIONS
    /\ selected[PositionCell] < AllTargets[PositionCell]

\* The candidate plies of the whole store, and the engine's verdict on a row
StoreCandidates ==
    UNION {GamesOf(ModelBuckets[b])[g].plies : b \in 1..Len(ModelBuckets), g \in 1..NumGames}

MateFens ==
    {BoardFen(cand.board) : cand \in
        {c \in StoreCandidates :
            classify_position(get_phase(c.board.pieces, c.ply), c.info,
                              c.is_check_capture).is_mate}}

IsMateFen(fen) == fen \in MateFens

MateRows(from, to) == Cardinality({i \in from..to : IsMateFen(csv[i].fen)})

\* the buffer is pending while the loop runs; once the loop is left its
\* positions are in the file
MatesBuffered ==
    IF pc = "while"
    THEN Cardinality({i \in 1..Len(new_positions) : new_positions[i].is_mate})
    ELSE 0

\* C5: within one run the accepted mate positions (the counter, and the mate
\* rows appended since the run started plus those still buffered) never
\* exceed int(0.04 * total target).
C5_MateCapWithinRun ==
    /\ mate_positions_count <= MAX_MATE_POSITIONS
    /\ MateRows(rows_at_start + 1, Len(csv)) + MatesBuffered <= MAX_MATE_POSITIONS

\* a run has ended with as many mate rows appended as the cap allows
C5_Witness ==
    /\ pc = "idle"
    /\ exit_code = 0
    /\ MAX_MATE_POSITIONS > 0
    /\ mate_positions_count = MAX_MATE_POSITIONS
    /\ MateRows(rows_at_start + 1, Len(csv)) = MAX_MATE_POSITIONS

\* C6: the mate rows of the whole file stay within the cap across resumed
\* runs.
C6_MateCapAcrossRuns ==
    MateRows(1, Len(csv)) <= MAX_MATE_POSITIONS

JustLoaded ==
    \/ pc = "for" /\ bucket_idx = 1
    \/ pc = "idle" /\ exit_code = 0 /\ bucket_idx = 0 /\ runs > 0

FileFull == \A c \in Cells : RowsOfCell(c) >= AllTargets[c]

\* C7: right after the file is loaded every cell count is the number of rows
\* carrying the cell's four labels and the known identifiers are exactly the
\* rows' identifiers; and no step appends a row to a file whose cells are
\* all full.
C7_ReloadMatchesFile ==
    /\ [](JustLoaded =>
            /\ \A c \in Cells :
                  selected[c] = Cardinality({i \in 1..Len(csv) :
                        /\ csv[i].elo_bucket = c[1] /\ csv[i].phase = c[2]
                        /\ csv[i].type = c[3] /\ csv[i].color = c[4]})
            /\ \A i \in 1..Len(csv) : RowPosId(csv[i]) \in existing_pos_ids
            /\ \A id \in existing_pos_ids : \E i \in 1..Len(csv) : RowPosId(csv[i]) = id)
    /\ [][FileFull => csv' = csv]_vars

\* a run was started on a full file and returned at once
C7_Witness ==
    /\ pc = "idle" /\ exit_code = 0 /\ bucket_idx = 0 /\ runs > 1
    /\ FileFull
    /\ Len(csv) = total_target
    /\ existing_pos_ids # {}

----------------------------------------------------------------------------
(* Properties of the pure functions *)

SplitOk(count, split) ==
    /\ split.white \in Nat /\ split.black \in Nat
    /\ split.white + split.black = count
    /\ Abs(split.white - split.black) <= 1

\* C8: for every target and phase the tactical and the quiet count are each
\* split into white and black sub-targets that are naturals, add up to the
\* count and differ by at most one.
C8_ColorSplit ==
    call.fn = "phase_targets" =>
        \A phase \in Phases :
            LET t == call.ret[phase]
            IN  /\ t.tactical_count \in Nat /\ t.quiet_count \in Nat
                /\ t.tactical_count + t.quiet_count = t.phase_count
                /\ SplitOk(t.tactical_count, t.tactical)
                /\ SplitOk(t.quiet_count, t.quiet)

\* the 70-position bucket: odd tactical and odd quiet counts in the opening
C8_Witness ==
    /\ call.fn = "phase_targets"
    /\ call.arg = 70
    /\ call.ret["opening"].tactical = [white |-> 1, black |-> 2]
    /\ call.ret["opening"].quiet = [white |-> 5, black |-> 6]
    /\ call.ret["middlegame"].quiet = [white |-> 15, black |-> 15]

PhaseByRule(ply, material, queens) ==
    IF ply <= 20 /\ queens /\ material >= 26 THEN "opening"
    ELSE IF material <= 14 THEN "endgame"
    ELSE "middlegame"

\* C9 as claimed: opening needs a queen on both sides.
C9_OpeningNeedsBothQueens ==
    call.fn = "get_phase" =>
        call.ret = PhaseByRule(call.arg.ply, get_material_count(call.arg.board),
                               call.arg.board.wq > 0 /\ call.arg.board.bq > 0)

\* C9 amended: get_phase depends on ply, material and queen presence alone:
\* opening exactly when ply <= 20, at least one side has a queen and material
\* >= 26; otherwise endgame exactly when material <= 14; otherwise middlegame.
C9_PhaseRule ==
    call.fn = "get_phase" =>
        call.ret = PhaseByRule(call.arg.ply, get_material_count(call.arg.board),
                               call.arg.board.wq + call.arg.board.bq > 0)

\* one queen left at ply 20 with material 29: opening
C9_Witness ==
    /\ call.fn = "get_phase"
    /\ call.arg.ply = 20
    /\ call.arg.board = [wq |-> 1, bq |-> 0, pawns |-> 0, minors |-> 0, rooks |-> 4]
    /\ call.ret = "opening"

ClaimedTactical(phase, info, cc) ==
    LET scores == top_moves_of(info)
        best == scores[1]
        gap == IF Len(scores) >= 2 THEN Abs(best - scores[2]) ELSE 0
        good_count == Cardinality({i \in 1..Len(scores) : Abs(scores[i] - best) <= 50})
        wide == IF phase = "endgame" THEN 60 ELSE 100
        narrow == IF phase = "endgame" THEN 20 ELSE 30
        any_tactical ==
            \/ good_count <= 2
            \/ Abs(best) >= 10000
            \/ gap >= wide
            \/ (cc /\ best > 100)
        quiet == ~any_tactical /\ gap <= narrow /\ ~cc /\ good_count >= 3
    IN  ~quiet

\* C10: classify_position answers quiet exactly when none of the tactical
\* criteria holds and the gap is at most 30 (20 in the endgame) and the best
\* move is no check or capture and at least 3 lines are within 50 of the
\* best; every other input, the empty result included, is tactical.
C10_TacticalRule ==
    call.fn = "classify_position" =>
        call.ret.is_tactical =
            ClaimedTactical(call.arg.phase, call.arg.info, call.arg.is_check_capture)

\* the ambiguous zone: gap 31, four good moves, no check or capture
C10_Witness ==
    /\ call.fn = "classify_position"
    /\ call.arg.phase = "opening"
    /\ ~call.arg.is_check_capture
    /\ call.arg.info = <<[kind |-> "cp", value |-> 200], [kind |-> "cp", value |-> 169],
                         [kind |-> "cp", value |-> 170], [kind |-> "cp", value |-> 180]>>
    /\ call.ret = [is_tactical |-> TRUE, is_mate |-> FALSE]

----------------------------------------------------------------------------
(* sample_position_from_game, the reservoir loop: 03_select_games.py 256-287 *)

MaxMoves == 4

\* What the rules library answers for the board after a ply
PlyBoards ==
    {[is_checkmate |-> FALSE, is_stalemate |-> FALSE,
      is_insufficient_material |-> FALSE, halfmove_clock |-> c] : c \in {0, 79, 80}}
      \cup {[is_checkmate |-> TRUE, is_stalemate |-> FALSE,
             is_insufficient_material |-> FALSE, halfmove_clock |-> 0],
            [is_checkmate |-> FALSE, is_stalemate |-> TRUE,
             is_insufficient_material |-> FALSE, halfmove_clock |-> 0],
            [is_checkmate |-> FALSE, is_stalemate |-> FALSE,
             is_insufficient_material |-> TRUE, halfmove_clock |-> 0]}

\* The boards of a game after each of its moves; no move follows a
\* checkmate or a stalemate
MoveLists ==
    UNION {{m \in [1..n -> PlyBoards] :
                \A i \in 1..(n - 1) : ~m[i].is_checkmate /\ ~m[i].is_stalemate}
           : n \in 0..MaxMoves}

is_eligible_ClockOver(board) ==
    ~(board.is_checkmate \/ board.is_stalemate \/ board.is_insufficient_material
      \/ board.halfmove_clock > 80)

\* lines 272-278, negated: the ply is not skipped
is_eligible(board) ==
    ~(board.is_checkmate \/ board.is_stalemate \/ board.is_insufficient_material
      \/ board.halfmove_clock >= 80)

reservoir_replaces_Always(draw) == TRUE

\* line 282: random.randint(1, eligible_count) == 1
reservoir_replaces(draw) == draw = 1

\* lines 267-284 from index i on (0-based ply i - 1); draws[k] is the value of
\* the k-th call of random.randint, which is made with bounds 1..k.  The
\* result is selected_ply, 0 standing for None.
RECURSIVE reservoir_loop(_, _, _, _, _)
reservoir_loop(moves, draws, i, eligible_count, selected_ply) ==
    IF i > Len(moves) THEN selected_ply
    ELSE IF ~is_eligible(moves[i])
         THEN reservoir_loop(moves, draws, i + 1, eligible_count, selected_ply)
         ELSE reservoir_loop(moves, draws, i + 1, eligible_count + 1,
                             IF reservoir_replaces(draws[eligible_count + 1])
                             THEN (i - 1) + 1 ELSE selected_ply)

\* lines 256-287: the ply of the returned position, 0 when None is returned
selected_ply_of(moves, draws) ==
    IF moves = <<>> THEN 0 ELSE reservoir_loop(moves, draws, 1, 0, 0)

EligibleCount(moves) == Cardinality({i \in 1..Len(moves) : is_eligible(moves[i])})

\* The possible outcomes of the calls of random.randint of one run of the loop
DrawSeqs(n) == {d \in [1..n -> 1..n] : \A k \in 1..n : d[k] <= k}

CallSample ==
    /\ call = NoCall
    /\ \E moves \in MoveLists :
         \E draws \in DrawSeqs(EligibleCount(moves)) :
            call' = [fn |-> "sample_position_from_game",
                     arg |-> [moves |-> moves, draws |-> draws],
                     ret |-> selected_ply_of(moves, draws)]
    /\ UNCHANGED selVars

SpecSample == Init /\ [][CallSample]_vars

----------------------------------------------------------------------------
(* Properties of the sampler *)

EligibleSet(moves) == {i \in 1..Len(moves) : is_eligible(moves[i])}

\* the k-th eligible ply of a game
RECURSIVE NthEligible(_, _, _)
NthEligible(moves, k, i) ==
    IF is_eligible(moves[i])
    THEN (IF k = 1 THEN i ELSE NthEligible(moves, k - 1, i + 1))
    ELSE NthEligible(moves, k, i + 1)

\* C11: the selection is the last eligible ply whose draw was 1 (the first
\* eligible ply is always taken, its draw being from 1..1), and over all draw
\* sequences of a game with N eligible plies every eligible ply is selected in
\* the same number of sequences, one N-th of them.
C11_ReservoirUniform ==
    call.fn = "sample_position_from_game" =>
        LET moves == call.arg.moves
            draws == call.arg.draws
            n == EligibleCount(moves)
            all == DrawSeqs(n)
        IN  /\ n > 0 =>
                LET last == CHOOSE k \in 1..n :
                                draws[k] = 1 /\ \A j \in (k + 1)..n : draws[j] # 1
                IN  call.ret = NthEligible(moves, last, 1)
            /\ \A p \in EligibleSet(moves) :
                  Cardinality({d \in all : selected_ply_of(moves, d) = p}) * n
                      = Cardinality(all)

\* three eligible plies, the second one kept although a third was seen
C11_Witness ==
    /\ call.fn = "sample_position_from_game"
    /\ EligibleCount(call.arg.moves) = 3
    /\ Len(call.arg.moves) = 4
    /\ call.arg.draws = <<1, 1, 2>>
    /\ call.ret = NthEligible(call.arg.moves, 2, 1)

\* C12: one call yields one ply or nothing; a yielded ply is the 1-based
\* index of a move of the game whose board is no checkmate, no stalemate, not
\* of insufficient material and has a halfmove clock below 80; nothing is
\* yielded exactly when the game has no move or no such ply.
C12_SampledPlyEligible ==
    call.fn = "sample_position_from_game" =>
        LET moves == call.arg.moves
            ok(i) == /\ ~moves[i].is_checkmate
                     /\ ~moves[i].is_stalemate
                     /\ ~moves[i].is_insufficient_material
                     /\ moves[i].halfmove_clock < 80
        IN  /\ call.ret \in 0..Len(moves)
            /\ call.ret # 0 => ok(call.ret)
            /\ call.ret = 0 <=> (moves = <<>> \/ \A i \in 1..Len(moves) : ~ok(i))

\* a game whose only plies are dead ones yields nothing
C12_Witness ==
    /\ call.fn = "sample_position_from_game"
    /\ Len(call.arg.moves) = 3
    /\ call.arg.moves[1].halfmove_clock = 80
    /\ call.arg.moves[2].is_insufficient_material
    /\ call.arg.moves[3].is_stalemate
    /\ call.ret = 0

----------------------------------------------------------------------------
(* The private flag of the question-assembling scripts *)

\* calculate_pos_id: hash_bucket = ... % 100 (03_select_games.py line 142)
HASH_BUCKETS == 100

\* str(n) of a bucket as the CSV holds it, as the sequence of its digits
PyStr(n) == IF n < 10 THEN <<n>> ELSE <<n \div 10, n % 10>>

\* a >= b on strings of digits: Python compares character by character and a
\* proper prefix is the smaller string
RECURSIVE StrGE(_, _)
StrGE(a, b) ==
    IF b = <<>> THEN TRUE
    ELSE IF a = <<>> THEN FALSE
    ELSE IF a[1] # b[1] THEN a[1] > b[1]
    ELSE StrGE(Tail(a), Tail(b))

\* 04_create_questions_games.py line 262: int(pos["hash_bucket"]) >= 80
private_04_create_questions_games(hash_bucket) == hash_bucket >= 80

\* 06_create_questions.py line 324: int(question["hash_bucket"]) < 20
private_06_create_questions(hash_bucket) == hash_bucket < 20

\* 04_format_questions.py line 35: pos['hash_bucket'] >= '80' on strings
private_04_format_questions(hash_bucket) == StrGE(PyStr(hash_bucket), PyStr(80))

QuestionScripts ==
    {"04_create_questions_games", "06_create_questions", "04_format_questions"}

private_flag(script, hash_bucket) ==
    CASE script = "04_create_questions_games" -> private_04_create_questions_games(hash_bucket)
      [] script = "06_create_questions" -> private_06_create_questions(hash_bucket)
      [] script = "04_format_questions" -> private_04_format_questions(hash_bucket)

CallPrivate ==
    /\ call = NoCall
    /\ \E script \in QuestionScripts, hash_bucket \in 0..(HASH_BUCKETS - 1) :
          call' = [fn |-> "private", arg |-> [script |-> script, hash_bucket |-> hash_bucket],
                   ret |-> private_flag(script, hash_bucket)]
    /\ UNCHANGED selVars

SpecPrivate == Init /\ [][CallPrivate]_vars

\* C13: in every question-assembling script a question is private exactly
\* when its shard bucket is 80 or more, and public when it is below 80, for
\* every bucket 0..99.
C13_PrivateFromBucket ==
    call.fn = "private" => (call.ret <=> call.arg.hash_bucket >= 80)

----------------------------------------------------------------------------
(* evaluate_all_moves and format_expected_output:
   04_create_questions_games.py 34-169, 06_create_questions.py 34-145 *)

MaxLines == 2

\* list(board.legal_moves) of the evaluated position
LegalMoves == <<"a2a3", "b2b3", "c2c3">>

\* A score as the engine reports it, relative to the side to move of the
\* analysed board
EngineScores ==
    {[kind |-> "cp", value |-> 30], [kind |-> "mate", value |-> 2],
     [kind |-> "mate", value |-> -1]}

NoScore == [kind |-> "none", value |-> 0]

\* One line of a multi-PV result: pv is the first move of the line, "" when
\* the line has no pv
PvLines ==
    {[pv |-> m, score |-> s] :
        m \in {LegalMoves[i] : i \in 1..Len(LegalMoves)}, s \in EngineScores \cup {NoScore}}
      \cup {[pv |-> "", score |-> [kind |-> "cp", value |-> 30]]}

\* What engine.analyse answers for the board after one move
MoveAnswers ==
    {[raises |-> TRUE, score |-> NoScore], [raises |-> FALSE, score |-> NoScore],
     [raises |-> FALSE, score |-> [kind |-> "cp", value |-> 10]],
     [raises |-> FALSE, score |-> [kind |-> "mate", value |-> 1]]}

\* The engine's behaviour during one call of evaluate_all_moves
EngineRuns ==
    [configure_raises : BOOLEAN,
     multipv_raises : BOOLEAN,
     info : UNION {[1..n -> PvLines] : n \in 0..MaxLines},
     per_move : [{LegalMoves[i] : i \in 1..Len(LegalMoves)} -> MoveAnswers]]

SENTINEL == 0 - 10000

sort_best_first_Ascending(move_scores) ==
    LET RECURSIVE ins(_, _)
        ins(sorted, e) ==
            IF sorted = <<>> THEN <<e>>
            ELSE IF sorted[Len(sorted)][2] <= e[2] THEN Append(sorted, e)
            ELSE Append(ins(SubSeq(sorted, 1, Len(sorted) - 1), e), sorted[Len(sorted)])
        RECURSIVE go(_, _)
        go(acc, k) == IF k > Len(move_scores) THEN acc ELSE go(ins(acc, move_scores[k]), k + 1)
    IN  go(<<>>, 1)

\* move_scores.sort(key=lambda x: x[1], reverse=True): a stable sort, entries
\* of equal score keep their order
sort_best_first(move_scores) ==
    LET RECURSIVE ins(_, _)
        ins(sorted, e) ==
            IF sorted = <<>> THEN <<e>>
            ELSE IF sorted[Len(sorted)][2] >= e[2] THEN Append(sorted, e)
            ELSE Append(ins(SubSeq(sorted, 1, Len(sorted) - 1), e), sorted[Len(sorted)])
        RECURSIVE go(_, _)
        go(acc, k) == IF k > Len(move_scores) THEN acc ELSE go(ins(acc, move_scores[k]), k + 1)
    IN  go(<<>>, 1)

\* 04_create_questions_games.py lines 75-84: score of a line
cp_score_line_04(score) ==
    IF score.kind = "mate"
    THEN (IF score.value > 0 THEN 30000 - score.value ELSE (0 - 30000) - score.value)
    ELSE score.value

\* lines 108-115 and 141-148: score of the board after the move, negated
cp_score_move_04(score) == 0 - cp_score_line_04(score)

\* lines 68-86: pv_moves, a dict from move to score; a later line of the
\* same move overwrites an earlier one
RECURSIVE pv_moves_04(_, _)
pv_moves_04(info, k) ==
    IF k = 0 THEN [m \in {} |-> 0]
    ELSE LET before == pv_moves_04(info, k - 1)
             line == info[k]
         IN  IF line.pv # "" /\ line.score # NoScore
             THEN [m \in DOMAIN before \cup {line.pv} |->
                      IF m = line.pv THEN cp_score_line_04(line.score) ELSE before[m]]
             ELSE before

\* lines 90-121: the moves without a line are analysed one by one
remaining_04(run, pv_moves) ==
    LET rest == {m \in DOMAIN run.per_move : m \notin DOMAIN pv_moves}
        scored == {m \in rest : run.per_move[m].raises \/ run.per_move[m].score # NoScore}
    IN  [m \in DOMAIN pv_moves \cup scored |->
            IF m \in DOMAIN pv_moves THEN pv_moves[m]
            ELSE IF run.per_move[m].raises THEN SENTINEL
            ELSE cp_score_move_04(run.per_move[m].score)]

\* evaluate_all_moves of 04_create_questions_games.py.  The answer is the
\* returned list, or raised when the exception leaves the function.
evaluate_all_moves_04(run) ==
    IF run.configure_raises THEN [raised |-> TRUE, move_scores |-> <<>>]
    ELSE IF run.multipv_raises
    THEN \* lines 132-155
         [raised |-> FALSE,
          move_scores |-> sort_best_first(
              [i \in 1..Len(LegalMoves) |->
                  LET a == run.per_move[LegalMoves[i]]
                  IN  <<LegalMoves[i],
                        IF a.raises \/ a.score = NoScore THEN SENTINEL
                        ELSE cp_score_move_04(a.score)>>])]
    ELSE \* lines 59-130
         LET pv_moves == remaining_04(run, pv_moves_04(run.info, Len(run.info)))
         IN  [raised |-> FALSE,
              move_scores |-> sort_best_first(
                  [i \in 1..Len(LegalMoves) |->
                      <<LegalMoves[i],
                        IF LegalMoves[i] \in DOMAIN pv_moves THEN pv_moves[LegalMoves[i]]
                        ELSE SENTINEL>>])]

\* score.white(): the score from White's point of view
white(score, turn) ==
    IF turn = "white" THEN score ELSE [kind |-> score.kind, value |-> 0 - score.value]

PyAbs(x) == IF x < 0 THEN 0 - x ELSE x

\* 06_create_questions.py lines 77-87 and 109-117
cp_score_06(score) ==
    IF score.kind = "mate"
    THEN (IF score.value > 0 THEN 30000 - PyAbs(score.value) * 100
          ELSE (0 - 30000) + PyAbs(score.value) * 100)
    ELSE score.value

Other(turn) == IF turn = "white" THEN "black" ELSE "white"

\* lines 72-95: the entries taken from the lines, and the moves they cover
RECURSIVE lines_06(_, _, _)
lines_06(info, turn, k) ==
    IF k = 0 THEN [move_scores |-> <<>>, analyzed_moves |-> {}]
    ELSE LET before == lines_06(info, turn, k - 1)
             line == info[k]
         IN  IF line.pv # "" /\ line.score # NoScore /\ line.pv \notin before.analyzed_moves
             THEN LET cp == cp_score_06(white(line.score, turn))
                  IN  [move_scores |->
                          Append(before.move_scores,
                                 <<line.pv, IF turn = "black" THEN 0 - cp ELSE cp>>),
                       analyzed_moves |-> before.analyzed_moves \cup {line.pv}]
             ELSE before

\* lines 98-128: one analysis per move not covered; board.turn is the
\* opponent's while the move is pushed
RECURSIVE rest_06(_, _, _, _)
rest_06(run, turn, acc, i) ==
    IF i > Len(LegalMoves) THEN acc
    ELSE LET move == LegalMoves[i]
             a == run.per_move[move]
         IN  IF move \in acc.analyzed_moves \/ (~a.raises /\ a.score = NoScore)
             THEN rest_06(run, turn, acc, i + 1)
             ELSE LET cp == 0 - cp_score_06(white(a.score, Other(turn)))
                  IN  rest_06(run, turn,
                              [move_scores |->
                                  Append(acc.move_scores,
                                         <<move, IF Other(turn) = "white" THEN 0 - cp ELSE cp>>),
                               analyzed_moves |-> acc.analyzed_moves],
                              i + 1)

\* evaluate_all_moves of 06_create_questions.py
evaluate_all_moves_06(run, turn) ==
    IF run.configure_raises THEN [raised |-> TRUE, move_scores |-> <<>>]
    ELSE LET from_lines == lines_06(run.info, turn, Len(run.info))
             raises == \/ run.multipv_raises
                       \/ \E m \in DOMAIN run.per_move :
                             m \notin from_lines.analyzed_moves /\ run.per_move[m].raises
         IN  IF raises THEN [raised |-> FALSE, move_scores |-> <<>>]  \* lines 134-136
             ELSE [raised |-> FALSE,
                   move_scores |-> sort_best_first(rest_06(run, turn, from_lines, 1).move_scores)]

\* format_expected_output: 04 writes {"uci":..,"score":..} objects, 06 writes
\* [move, score] pairs, both in the order of the list
format_expected_output_04(move_scores) ==
    [i \in 1..Len(move_scores) |-> [uci |-> move_scores[i][1], score |-> move_scores[i][2]]]

format_expected_output_06(move_scores) ==
    [i \in 1..Len(move_scores) |-> <<move_scores[i][1], move_scores[i][2]>>]

CallEvaluate04 ==
    /\ call = NoCall
    /\ \E run \in EngineRuns :
          call' = [fn |-> "evaluate_all_moves", script |-> "04_create_questions_games",
                   arg |-> [run |-> run, turn |-> "white"],
                   ret |-> evaluate_all_moves_04(run)]
    /\ UNCHANGED selVars

CallEvaluate06 ==
    /\ call = NoCall
    /\ \E run \in EngineRuns, turn \in {"white", "black"} :
          call' = [fn |-> "evaluate_all_moves", script |-> "06_create_questions",
                   arg |-> [run |-> run, turn |-> turn],
                   ret |-> evaluate_all_moves_06(run, turn)]
    /\ UNCHANGED selVars

SpecEvaluate == Init /\ [][CallEvaluate04 \/ CallEvaluate06]_vars

----------------------------------------------------------------------------
(* Properties of evaluate_all_moves *)

LegalSet == {LegalMoves[i] : i \in 1..Len(LegalMoves)}

\* C14: whatever the engine calls do, evaluate_all_moves returns a table
\* with exactly one entry for every legal move and no other entry.
C14_OneEntryPerLegalMove ==
    call.fn = "evaluate_all_moves" =>
        /\ ~call.ret.raised
        /\ \A m \in LegalSet :
              Cardinality({i \in 1..Len(call.ret.move_scores) :
                              call.ret.move_scores[i][1] = m}) = 1
        /\ \A i \in 1..Len(call.ret.move_scores) : call.ret.move_scores[i][1] \in LegalSet

\* C15: a returned table is ordered by score, best first, on every path, and
\* its serialization lists the same moves with the same scores in the same
\* order.
C15_TableSortedBestFirst ==
    (call.fn = "evaluate_all_moves" /\ ~call.ret.raised) =>
        LET t == call.ret.move_scores
            out04 == format_expected_output_04(t)
            out06 == format_expected_output_06(t)
        IN  /\ \A i \in 1..(Len(t) - 1) : t[i][2] >= t[i + 1][2]
            /\ Len(out04) = Len(t) /\ Len(out06) = Len(t)
            /\ \A i \in 1..Len(t) :
                  /\ out04[i].uci = t[i][1] /\ out04[i].score = t[i][2]
                  /\ out06[i] = t[i]
            /\ \A i \in 1..(Len(t) - 1) :
                  out04[i].score >= out04[i + 1].score /\ out06[i][2] >= out06[i + 1][2]

\* one move scored by its line, one by its own analysis, one by the sentinel,
\* returned in another order than the legal moves
C15_Witness ==
    /\ call.fn = "evaluate_all_moves"
    /\ call.script = "04_create_questions_games"
    /\ ~call.arg.run.multipv_raises
    /\ call.ret.move_scores = <<<<"c2c3", 30>>, <<"b2b3", 0 - 10>>, <<"a2a3", SENTINEL>>>>

----------------------------------------------------------------------------
(* 04_create_questions_games.py: check_existing_progress and main *)

NumPositions == 3
MaxEvalRuns == 2

\* expected_output texts: a serialized move table, the empty list written
\* after a failed evaluation (json.dumps([])), and the empty field
TABLE_TEXT == "[{\"uci\":\"a2a3\",\"score\":30}]"
EMPTY_LIST_TEXT == "[]"

QuestionRow(index, expected_output) ==
    [has_index |-> TRUE, index |-> index, expected_output |-> expected_output]

\* questions.csv as the other two scripts of the repository leave it:
\* 04_format_questions.py writes every row with an empty expected_output,
\* 06_create_questions.py writes rows without an index column
FormatQuestionsFile ==
    [exists |-> TRUE, rows |-> [k \in 1..NumPositions |-> QuestionRow(k - 1, "")]]

CreateQuestionsFile ==
    [exists |-> TRUE,
     rows |-> [k \in 1..NumPositions |->
                 [has_index |-> FALSE, index |-> 0, expected_output |-> TABLE_TEXT]]]

\* lines 172-181.  A row counts when its expected_output is a non-empty
\* string other than "{}"; row["index"] of such a row is then converted, which
\* raises when the column is missing or no number.
check_existing_progress(output_file) ==
    LET kept == {k \in 1..Len(output_file.rows) :
                    /\ output_file.rows[k].expected_output # ""
                    /\ output_file.rows[k].expected_output # "{}"}
    IN  IF ~output_file.exists THEN [raised |-> FALSE, evaluated |-> <<>>]
        ELSE IF \E k \in kept : ~output_file.rows[k].has_index
        THEN [raised |-> TRUE, evaluated |-> <<>>]
        ELSE [raised |-> FALSE,
              evaluated |-> [i \in {output_file.rows[k].index : k \in kept} |->
                               LET last == CHOOSE k \in kept :
                                              /\ output_file.rows[k].index = i
                                              /\ \A j \in kept :
                                                    output_file.rows[j].index = i => j <= k
                               IN  output_file.rows[last].expected_output]]

\* lines 186-256: the file is read; main returns when nothing remains, else
\* it opens questions_temp.csv for writing, which empties it
EvalStart ==
    /\ e_pc = "idle"
    /\ e_runs < MaxEvalRuns
    /\ e_runs' = e_runs + 1
    /\ e_queries' = {}
    /\ eval_i' = 0
    /\ LET progress == check_existing_progress(questions_csv)
           remaining == NumPositions - Cardinality(DOMAIN progress.evaluated)
       IN  IF progress.raised
           THEN /\ e_exit' = 1
                /\ e_pc' = "idle"
                /\ evaluated' = <<>>
                /\ UNCHANGED questions_temp
           ELSE IF remaining = 0
           THEN /\ e_exit' = 0
                /\ e_pc' = "idle"
                /\ evaluated' = progress.evaluated
                /\ UNCHANGED questions_temp
           ELSE /\ e_exit' = -1
                /\ e_pc' = "loop"
                /\ evaluated' = progress.evaluated
                /\ questions_temp' = [exists |-> TRUE, rows |-> <<>>]
    /\ UNCHANGED <<questions_csv, e_done, posVars, call, orchVars, procVars>>

\* lines 258-318: one position.  A known index is copied; otherwise the
\* board is evaluated, and an exception on the way (lines 306-308) writes
\* the empty list
EvalStep ==
    /\ e_pc = "loop"
    /\ eval_i < NumPositions
    /\ eval_i' = eval_i + 1
    /\ IF eval_i \in DOMAIN evaluated
       THEN /\ questions_temp' =
                  [questions_temp EXCEPT
                      !.rows = Append(@, QuestionRow(eval_i, evaluated[eval_i]))]
            /\ UNCHANGED <<e_queries, e_done>>
       ELSE \E engine_ok \in BOOLEAN :
               /\ e_queries' = e_queries \cup {eval_i}
               /\ e_done' = IF engine_ok THEN e_done \cup {eval_i} ELSE e_done
               /\ questions_temp' =
                     [questions_temp EXCEPT
                         !.rows = Append(@, QuestionRow(eval_i,
                                     IF engine_ok THEN TABLE_TEXT ELSE EMPTY_LIST_TEXT))]
    /\ UNCHANGED <<questions_csv, e_pc, evaluated, e_runs, e_exit, posVars, call, orchVars, procVars>>

\* lines 331-352: after the loop, os.replace(temp_file, output_file)
EvalFinish ==
    /\ e_pc = "loop"
    /\ eval_i = NumPositions
    /\ questions_csv' = questions_temp
    /\ questions_temp' = NoFile
    /\ e_pc' = "idle"
    /\ e_exit' = 0
    /\ UNCHANGED <<eval_i, evaluated, e_queries, e_done, e_runs, posVars, call, orchVars, procVars>>

\* The process is killed inside the loop: questions_temp.csv keeps what was
\* written, questions.csv is as it was
EvalInterrupt ==
    /\ e_pc = "loop"
    /\ e_pc' = "idle"
    /\ e_exit' = 130
    /\ UNCHANGED <<questions_csv, questions_temp, eval_i, evaluated, e_queries, e_done,
                   e_runs, posVars, call, orchVars, procVars>>

InitEval ==
    /\ SelInit /\ call = NoCall /\ EvalIdle /\ OrchIdle
    /\ ProcIdle /\ games_pgn = <<>>
    /\ questions_csv \in {NoFile, FormatQuestionsFile, CreateQuestionsFile}

NextEval == EvalStart \/ EvalStep \/ EvalFinish \/ EvalInterrupt

SpecEval == InitEval /\ [][NextEval]_vars

----------------------------------------------------------------------------
(* Properties of the engine-using stages under failures *)

\* C16 (selection stage): unless the process is killed, a step of the
\* selection loop is followed by the loop or by the next bucket, whatever the
\* engine query of that step did.
C16_EngineFailureNeverEndsBatch ==
    [][(pc = "while" /\ exit_code' # 130) => pc' \in {"while", "for"}]_vars

\* C16 (evaluation stage): a step of the evaluation loop writes one row and
\* goes on to the next position, whether the engine answered or failed.
EvalFailureContinues ==
    [][(e_pc = "loop" /\ eval_i' # eval_i) =>
          /\ e_pc' = "loop"
          /\ eval_i' = eval_i + 1
          /\ Len(questions_temp'.rows) = Len(questions_temp.rows) + 1]_vars

ValidEvaluation(row) ==
    row.has_index /\ row.expected_output \notin {"", "{}", EMPTY_LIST_TEXT}

\* C17: when a run starts from a previous questions.csv it does not fail, and
\* it takes as evaluated only rows holding a valid evaluation; any other row
\* is left to be recomputed.
C17_InvalidRowsRecomputed ==
    [][e_runs' = e_runs + 1 =>
          /\ e_exit' # 1
          /\ \A k \in 1..Len(questions_csv.rows) :
                (questions_csv.rows[k].has_index
                    /\ questions_csv.rows[k].index \in DOMAIN evaluated')
                  => \E j \in 1..Len(questions_csv.rows) :
                        /\ questions_csv.rows[j].index = questions_csv.rows[k].index
                        /\ ValidEvaluation(questions_csv.rows[j])]_vars

\* C18: what a killed run had evaluated is in questions.csv afterwards, and
\* no run queries the engine for a position an earlier run has evaluated.
C18_ResumeSkipsEvaluated ==
    /\ [](e_pc = "idle" /\ e_exit = 130 =>
            \A i \in e_done :
                \E k \in 1..Len(questions_csv.rows) :
                    questions_csv.rows[k].index = i /\ ValidEvaluation(questions_csv.rows[k]))
    /\ [][\A i \in e_queries' \ e_queries : i \notin e_done]_vars

----------------------------------------------------------------------------
(* generate.py: run_step and main *)

MaxOrchRuns == 2

\* What main can find on disk: each output present or not; questions.csv
\* absent, present without evaluations, or present with evaluations
\* (check_questions_status, lines 82-109)
FileStates ==
    [games_pgn : BOOLEAN, games_db : BOOLEAN, positions_csv : BOOLEAN,
     questions : {"absent", "no_evals", "has_evals"}]

\* lines 28-32: run_step returns at once, without starting the script
already_complete(check_files_exist, force) == check_files_exist /\ ~force

step_result_Continues(ok, next) == [pc |-> next, status |-> -1]

\* "if not run_step(...): sys.exit(1)" (lines 176-178, 188-195, 198-205,
\* 231-233): where main goes after a step's script ended
step_result(ok, next) ==
    [pc |-> IF ok THEN next ELSE "idle", status |-> IF ok THEN -1 ELSE 1]

\* lines 144-171: statistics, dependency check, arguments
OrchStart ==
    /\ o_pc = "idle"
    /\ o_runs < MaxOrchRuns
    /\ o_runs' = o_runs + 1
    /\ o_started' = <<>>
    /\ o_failed' = {}
    /\ \E force_all \in BOOLEAN, skip_eval \in BOOLEAN :
          o_args' = [force_all |-> force_all, skip_eval |-> skip_eval]
    /\ IF o_runs = 0 THEN o_files' \in FileStates ELSE UNCHANGED o_files
    /\ \E dependencies_ok \in BOOLEAN :
          IF dependencies_ok
          THEN o_pc' = "step1" /\ o_status' = -1
          ELSE o_pc' = "idle" /\ o_status' = 1
    /\ UNCHANGED <<posVars, call, evalVars, procVars>>

\* lines 173-185.  Step 1 does not look at force_all.
Step1 ==
    /\ o_pc = "step1"
    /\ IF o_files.games_pgn
       THEN /\ o_pc' = "step2"
            /\ UNCHANGED <<o_files, o_started, o_failed, o_status>>
       ELSE \E script_exists \in BOOLEAN :
              IF script_exists
              THEN \E ok \in BOOLEAN :
                      /\ o_started' = Append(o_started, 1)
                      /\ o_failed' = IF ok THEN o_failed ELSE o_failed \cup {1}
                      /\ o_files' = [o_files EXCEPT !.games_pgn = ok]
                      /\ o_pc' = step_result(ok, "step2").pc
                      /\ o_status' = step_result(ok, "step2").status
              ELSE /\ o_pc' = "idle"
                   /\ o_status' = 1
                   /\ UNCHANGED <<o_files, o_started, o_failed>>
    /\ UNCHANGED <<o_args, o_runs, posVars, call, evalVars, procVars>>

\* lines 187-195.  A script that fails may have left its output behind.
Step2 ==
    /\ o_pc = "step2"
    /\ IF already_complete(o_files.games_db, o_args.force_all)
       THEN /\ o_pc' = "step3"
            /\ UNCHANGED <<o_files, o_started, o_failed, o_status>>
       ELSE \E ok \in BOOLEAN, left_behind \in BOOLEAN :
               /\ o_started' = Append(o_started, 2)
               /\ o_failed' = IF ok THEN o_failed ELSE o_failed \cup {2}
               /\ o_files' = [o_files EXCEPT !.games_db = ok \/ left_behind \/ @]
               /\ o_pc' = step_result(ok, "step3").pc
               /\ o_status' = step_result(ok, "step3").status
    /\ UNCHANGED <<o_args, o_runs, posVars, call, evalVars, procVars>>

\* lines 197-205
Step3 ==
    /\ o_pc = "step3"
    /\ IF already_complete(o_files.positions_csv, o_args.force_all)
       THEN /\ o_pc' = "step4"
            /\ UNCHANGED <<o_files, o_started, o_failed, o_status>>
       ELSE \E ok \in BOOLEAN, left_behind \in BOOLEAN :
               /\ o_started' = Append(o_started, 3)
               /\ o_failed' = IF ok THEN o_failed ELSE o_failed \cup {3}
               /\ o_files' = [o_files EXCEPT !.positions_csv = ok \/ left_behind \/ @]
               /\ o_pc' = step_result(ok, "step4").pc
               /\ o_status' = step_result(ok, "step4").status
    /\ UNCHANGED <<o_args, o_runs, posVars, call, evalVars, procVars>>

Step4_NoSkipFlag ==
    /\ o_pc = "step4"
    /\ IF o_files.questions = "has_evals" /\ ~o_args.force_all
       THEN /\ o_pc' = "summary"
            /\ UNCHANGED <<o_files, o_started, o_failed, o_status>>
       ELSE \E response \in {"y", "n"} :
              IF response = "y"
              THEN \E ok \in BOOLEAN, first_row_evaluated \in BOOLEAN :
                      /\ o_started' = Append(o_started, 4)
                      /\ o_failed' = IF ok THEN o_failed ELSE o_failed \cup {4}
                      /\ o_files' =
                            IF ok
                            THEN [o_files EXCEPT !.questions =
                                     IF first_row_evaluated THEN "has_evals" ELSE "no_evals"]
                            ELSE o_files
                      /\ o_pc' = step_result(ok, "summary").pc
                      /\ o_status' = step_result(ok, "summary").status
              ELSE /\ o_pc' = "summary"
                   /\ UNCHANGED <<o_files, o_started, o_failed, o_status>>
    /\ UNCHANGED <<o_args, o_runs, posVars, call, evalVars, procVars>>

\* lines 207-235.  The script is started only after the user answers "y";
\* it replaces questions.csv only when it runs to its end.
Step4 ==
    /\ o_pc = "step4"
    /\ IF o_files.questions = "has_evals" /\ ~o_args.force_all
       THEN /\ o_pc' = "summary"
            /\ UNCHANGED <<o_files, o_started, o_failed, o_status>>
       ELSE IF o_args.skip_eval
       THEN /\ o_pc' = "summary"
            /\ UNCHANGED <<o_files, o_started, o_failed, o_status>>
       ELSE \E response \in {"y", "n"} :
              IF response = "y"
              THEN \E ok \in BOOLEAN, first_row_evaluated \in BOOLEAN :
                      /\ o_started' = Append(o_started, 4)
                      /\ o_failed' = IF ok THEN o_failed ELSE o_failed \cup {4}
                      /\ o_files' =
                            IF ok
                            THEN [o_files EXCEPT !.questions =
                                     IF first_row_evaluated THEN "has_evals" ELSE "no_evals"]
                            ELSE o_files
                      /\ o_pc' = step_result(ok, "summary").pc
                      /\ o_status' = step_result(ok, "summary").status
              ELSE /\ o_pc' = "summary"
                   /\ UNCHANGED <<o_files, o_started, o_failed, o_status>>
    /\ UNCHANGED <<o_args, o_runs, posVars, call, evalVars, procVars>>

\* lines 237-264: summary; main returns
OrchFinish ==
    /\ o_pc = "summary"
    /\ o_pc' = "idle"
    /\ o_status' = 0
    /\ UNCHANGED <<o_args, o_files, o_started, o_failed, o_runs, posVars, call, evalVars, procVars>>

NextOrch == OrchStart \/ Step1 \/ Step2 \/ Step3 \/ Step4 \/ OrchFinish

SpecOrch == Init /\ [][NextOrch]_vars

----------------------------------------------------------------------------
(* Properties of the orchestrator *)

\* C19: when the script of a step fails the pipeline ends at once with a
\* non-zero status, no step is started after a failure, and the steps of a
\* run are started in increasing order 1, 2, 3, 4.
C19_FailureStopsPipeline ==
    /\ [][o_failed' # o_failed /\ o_runs' = o_runs =>
             o_pc' = "idle" /\ o_status' # 0 /\ o_status' # -1]_vars
    /\ [](o_failed # {} => o_pc = "idle" /\ o_status = 1)
    /\ [][o_started' # o_started /\ o_runs' = o_runs =>
             /\ o_failed = {}
             /\ \E s \in 1..4 :
                   /\ o_started' = Append(o_started, s)
                   /\ \A k \in 1..Len(o_started) : o_started[k] < s]_vars

\* step 3 failed after steps 1 and 2 ran: the run is over with status 1
C19_Witness ==
    /\ o_started = <<1, 2, 3>>
    /\ o_failed = {3}
    /\ o_pc = "idle"
    /\ o_status = 1

OutputsExist(s, files) ==
    CASE s = 1 -> files.games_pgn
      [] s = 2 -> files.games_db
      [] s = 3 -> files.positions_csv
      [] s = 4 -> files.questions # "absent"

\* C20: a run with --force that ends normally has executed every step 1 to
\* 4, whatever existed before; a run without --force starts no step whose
\* output files all exist.
C20_ForceRerunsEveryStep ==
    /\ [](o_pc = "idle" /\ o_status = 0 /\ o_args.force_all => o_started = <<1, 2, 3, 4>>)
    /\ [][\A s \in 1..4 :
            (~o_args.force_all /\ o_started' = Append(o_started, s))
                => ~OutputsExist(s, o_files)]_vars

\* C21: in a run with --skip-eval the script of step 4 is never started,
\* with or without --force and whatever questions.csv holds; once steps 1 to
\* 3 are behind it such a run goes to the summary and returns status 0.
C21_SkipEvalNeverEvaluates ==
    /\ [](o_args.skip_eval => \A k \in 1..Len(o_started) : o_started[k] # 4)
    /\ [][(o_pc = "step4" /\ o_args.skip_eval /\ o_pc' # o_pc) =>
             o_pc' = "summary" /\ o_failed' = {} /\ o_files' = o_files]_vars
    /\ [](o_pc = "summary" => ENABLED OrchFinish)
    /\ [][(o_pc = "summary" /\ o_pc' # o_pc) => o_status' = 0]_vars

\* --force --skip-eval over a questions.csv without evaluations: steps 2 and 3 ran
\* again, step 4 did not, the run returned 0
C21_Witness ==
    /\ o_args = [force_all |-> TRUE, skip_eval |-> TRUE]
    /\ o_files.questions = "no_evals"
    /\ o_started = <<2, 3>>
    /\ o_pc = "idle"
    /\ o_status = 0

----------------------------------------------------------------------------
(* The canonical key of a position: get_fen4 and calculate_pos_id,
   03_select_games.py 107-143 *)

MaxEpPawns == 2

File(square) == square % 8
Rank(square) == square \div 8

\* The en-passant targets tried: a6, d6, h6 with White to move and a3, d3,
\* h3 with Black to move
EpSquares(turn) == IF turn = "w" THEN {40, 43, 47} ELSE {16, 19, 23}

\* Squares a pawn of the side to move can stand on: the rank beside the
\* pawn that has just advanced, and the two squares that are 7 or 9 away from
\* a target across the edge of the board
PawnSquares(turn) ==
    IF turn = "w" THEN {31, 32, 33, 34, 36, 38, 39, 40}
    ELSE {23, 24, 25, 27, 29, 30, 31, 32}

\* the pawns from which a capture on the target is a pawn capture at all
Adjacent(turn, ep_square, pawns) ==
    {s \in pawns :
        /\ Rank(s) = (IF turn = "w" THEN Rank(ep_square) - 1 ELSE Rank(ep_square) + 1)
        /\ (File(s) = File(ep_square) + 1 \/ File(s) = File(ep_square) - 1)}

\* Boards as python-chess can hold them: a target only after a double step,
\* legal en-passant captures only from pawns beside it (fewer when a pawn is
\* pinned or the capture would leave the king in check)
KeyBoards ==
    UNION {
      UNION {
        {[placement |-> placement, turn |-> turn, castling |-> castling,
          ep_square |-> ep_square, pawns |-> pawns, legal_ep |-> legal_ep,
          halfmove |-> halfmove, fullmove |-> fullmove] :
            placement \in {1, 2}, castling \in {"-", "KQkq"},
            legal_ep \in (IF ep_square = 0 THEN {{}}
                          ELSE SUBSET Adjacent(turn, ep_square, pawns)),
            halfmove \in {0, 1}, fullmove \in {1, 2}}
        : ep_square \in EpSquares(turn) \cup {0},
          pawns \in {P \in SUBSET PawnSquares(turn) : Cardinality(P) <= MaxEpPawns}}
      : turn \in {"w", "b"}}

\* Stand-in for int(sha256(text).hexdigest()[:8], 16): a number computed
\* from every field of the text in order, so that it depends on each of them
\* and on their count (16 bits wide here, 32 in the code)
FieldCode(k, v) ==
    CASE k = 2 -> (IF v = "w" THEN 1 ELSE 2)
      [] k = 3 -> (IF v = "-" THEN 0 ELSE 15)
      [] k = 4 -> (IF v = "-" THEN 0 ELSE CHOOSE n \in 1..63 : ToString(n) = v)
      [] OTHER -> v

RECURSIVE Sha256Prefix(_, _)
Sha256Prefix(text, k) ==
    IF k = 0 THEN 7
    ELSE (Sha256Prefix(text, k - 1) * 131 + FieldCode(k, text[k]) + 17) % 65536

\* line 142
hash_bucket_of(fen4) == Sha256Prefix(fen4, Len(fen4)) % HASH_BUCKETS

\* the key, the identifier and the bucket of a board (lines 291-292)
position_key(board) ==
    LET fen4 == get_fen4(board)
    IN  [fen4 |-> fen4, pos_id |-> calculate_pos_id(fen4), hash_bucket |-> hash_bucket_of(fen4)]

CallKey ==
    /\ call = NoCall
    /\ \E board \in KeyBoards :
          call' = [fn |-> "get_fen4", arg |-> board, ret |-> position_key(board)]
    /\ UNCHANGED selVars

SpecKey == Init /\ [][CallKey]_vars

----------------------------------------------------------------------------
(* Properties of the canonical key *)

\* C22: the key is the four fields placement, side to move, castling rights
\* and normalized en-passant target; key, identifier and bucket are the same
\* when computed again and for every other value of the halfmove clock and
\* the move number, and the bucket is in 0..99.
C22_KeyFromFourFields ==
    call.fn = "get_fen4" =>
        LET board == call.arg
        IN  /\ Len(call.ret.fen4) = 4
            /\ call.ret.fen4[1] = board.placement
            /\ call.ret.fen4[2] = board.turn
            /\ call.ret.fen4[3] = board.castling
            /\ call.ret.fen4[4] = normalize_en_passant(board)
            /\ call.ret.hash_bucket \in 0..99
            /\ position_key(board) = call.ret
            /\ \A halfmove \in 0..3, fullmove \in 1..3 :
                  position_key([board EXCEPT !.halfmove = halfmove,
                                             !.fullmove = fullmove]) = call.ret

\* a board with a legal en-passant capture, clock 1, move 2
C22_Witness ==
    /\ call.fn = "get_fen4"
    /\ call.arg.halfmove = 1
    /\ call.arg.fullmove = 2
    /\ call.arg.legal_ep # {}
    /\ call.ret.fen4[4] # "-"

\* C23: the en-passant field of the key is the target square exactly when a
\* target is set and some pawn of the side to move beside it can legally
\* capture on it; with no target, no pawn beside it, or every such pawn
\* unable to capture legally, it is "-"; the board with the capture available
\* and the same board with it unavailable get different keys.
C23_EnPassantOnlyWhenLegal ==
    call.fn = "get_fen4" =>
        LET board == call.arg
            capturers == IF board.ep_square = 0 THEN {}
                         ELSE Adjacent(board.turn, board.ep_square, board.pawns)
                                  \cap board.legal_ep
        IN  /\ capturers # {} => call.ret.fen4[4] = ToString(board.ep_square)
            /\ capturers = {} => call.ret.fen4[4] = "-"
            /\ capturers # {} =>
                  /\ position_key([board EXCEPT !.legal_ep = {}]).fen4 # call.ret.fen4
                  /\ position_key([board EXCEPT !.legal_ep = {}]).pos_id # call.ret.pos_id

\* Black to move, target h3, pawns on g4 and on a5 (9 squares from h3 across
\* the edge); the g4 pawn is pinned, so no capture is legal
C23_Witness ==
    /\ call.fn = "get_fen4"
    /\ call.arg.turn = "b"
    /\ call.arg.ep_square = 23
    /\ call.arg.pawns = {30, 32}
    /\ call.arg.legal_ep = {}
    /\ call.ret.fen4[4] = "-"

----------------------------------------------------------------------------
(* classify_position of 03_select.py, lines 164-241, beside the one of
   03_select_games.py *)

\* as classify_position_select, with the else branch of 03_select_games.py
\* on the quiet test
classify_position_select_Default(phase, info, is_check_capture) ==
    LET top_moves == top_moves_of(SubSeq(info, 1, IF Len(info) < MULTI_PV THEN Len(info) ELSE MULTI_PV))
    IN  IF info = <<>> \/ top_moves = <<>>
        THEN FALSE
        ELSE
        LET best_eval == top_moves[1]
            gap == Gap(top_moves)
            good_move_count == GoodMoveCount(top_moves)
            t1 == IF Abs(best_eval) >= 10000 THEN TRUE
                  ELSE IF (phase \in {"opening", "middlegame"} /\ gap >= 100)
                          \/ (phase = "endgame" /\ gap >= 60) THEN TRUE
                  ELSE IF is_check_capture /\ best_eval > 100 THEN TRUE
                  ELSE IF good_move_count <= 2 THEN TRUE
                  ELSE FALSE
        IN  IF ~t1
            THEN (IF (phase \in {"opening", "middlegame"} /\ gap <= 30)
                     \/ (phase = "endgame" /\ gap <= 20)
                  THEN (IF ~is_check_capture /\ good_move_count >= 3 THEN FALSE ELSE TRUE)
                  ELSE TRUE)
            ELSE t1

\* The first component of the returned tuple, is_tactical.  MULTI_PV is 4 in
\* both scripts and the conversion of the scores is the same (lines 176-195).
classify_position_select(phase, info, is_check_capture) ==
    LET top_moves == top_moves_of(SubSeq(info, 1, IF Len(info) < MULTI_PV THEN Len(info) ELSE MULTI_PV))
    IN  IF info = <<>> \/ top_moves = <<>>
        THEN FALSE
        ELSE
        LET best_eval == top_moves[1]
            gap == Gap(top_moves)
            good_move_count == GoodMoveCount(top_moves)
            \* the if / elif chain of lines 216-227
            t1 == IF Abs(best_eval) >= 10000 THEN TRUE
                  ELSE IF (phase \in {"opening", "middlegame"} /\ gap >= 100)
                          \/ (phase = "endgame" /\ gap >= 60) THEN TRUE
                  ELSE IF is_check_capture /\ best_eval > 100 THEN TRUE
                  ELSE IF good_move_count <= 2 THEN TRUE
                  ELSE FALSE
        IN  \* lines 230-237: outside the quiet gap nothing is assigned
            IF ~t1
            THEN (IF (phase \in {"opening", "middlegame"} /\ gap <= 30)
                     \/ (phase = "endgame" /\ gap <= 20)
                  THEN (IF ~is_check_capture /\ good_move_count >= 3 THEN FALSE ELSE TRUE)
                  ELSE t1)
            ELSE t1

\* Both scripts on the same engine result
CallClassifyBoth ==
    /\ call = NoCall
    /\ \E phase \in Phases, info \in Infos, cc \in BOOLEAN :
          call' = [fn |-> "classify_position_both",
                   arg |-> [phase |-> phase, info |-> info, is_check_capture |-> cc],
                   ret |-> [select |-> classify_position_select(phase, info, cc),
                            select_games |-> classify_position(phase, info, cc).is_tactical]]
    /\ UNCHANGED selVars

SpecClassifyBoth == Init /\ [][CallClassifyBoth]_vars

----------------------------------------------------------------------------
(* Properties of the two classifiers *)

NoAnalysis(info) == top_moves_of(info) = <<>>

\* no tactical criterion holds and the gap is strictly between the quiet and
\* the tactical threshold of the phase
BetweenThresholds(phase, info, cc) ==
    LET top_moves == top_moves_of(info)
        gap == Gap(top_moves)
    IN  /\ top_moves # <<>>
        /\ Abs(top_moves[1]) < 10000
        /\ ~(cc /\ top_moves[1] > 100)
        /\ GoodMoveCount(top_moves) >= 3
        /\ IF phase = "endgame" THEN gap > 20 /\ gap < 60 ELSE gap > 30 /\ gap < 100

\* C24: the two classify_position implementations disagree: on an engine
\* result that is empty or has no usable line, and on a result whose gap is
\* strictly between the quiet and the tactical threshold while no tactical
\* criterion holds, 03_select.py answers quiet and 03_select_games.py
\* tactical; on every other input they agree.
C24_ClassifiersDisagree ==
    call.fn = "classify_position_both" =>
        LET a == call.arg
            differs == NoAnalysis(a.info)
                           \/ BetweenThresholds(a.phase, a.info, a.is_check_capture)
        IN  /\ differs => ~call.ret.select /\ call.ret.select_games
            /\ ~differs => call.ret.select = call.ret.select_games

\* the endgame with gap 21 and four lines within 50 of the best
C24_Witness ==
    /\ call.fn = "classify_position_both"
    /\ call.arg.phase = "endgame"
    /\ ~call.arg.is_check_capture
    /\ call.arg.info = <<[kind |-> "cp", value |-> 200], [kind |-> "cp", value |-> 179],
                         [kind |-> "cp", value |-> 180], [kind |-> "cp", value |-> 170]>>
    /\ call.ret = [select |-> FALSE, select_games |-> TRUE]

\* the empty engine result
C24_WitnessNoAnalysis ==
    /\ call.fn = "classify_position_both"
    /\ call.arg.info = <<>>
    /\ call.ret = [select |-> FALSE, select_games |-> TRUE]

----------------------------------------------------------------------------
(* The bucket targets of the two selection scripts and their cell targets *)

\* 03_select.py lines 28-34
GAME_DISTRIBUTION_select ==
    [b \in {"0-1400", "1400-1800", "1800-2200", "2200-2600", "2600+"} |->
        CASE b = "0-1400" -> 4
          [] b = "1400-1800" -> 8
          [] b = "1800-2200" -> 8
          [] b = "2200-2600" -> 4
          [] b = "2600+" -> 4]

ConfiguredTargets ==
    {GAME_DISTRIBUTION[b] : b \in DOMAIN GAME_DISTRIBUTION}
        \cup {GAME_DISTRIBUTION_select[b] : b \in DOMAIN GAME_DISTRIBUTION_select}

\* the sum of the twelve cell targets of a bucket
SumCells(targets) ==
    LET PhaseSum(phase) ==
            targets[phase].tactical.white + targets[phase].tactical.black
                + targets[phase].quiet.white + targets[phase].quiet.black
    IN  PhaseSum("opening") + PhaseSum("middlegame") + PhaseSum("endgame")

\* C27: for each ELO bucket of either configuration the twelve cell targets
\* add up to the bucket's target.
C27_CellsSumToTarget ==
    (call.fn = "phase_targets" /\ call.arg \in ConfiguredTargets) =>
        SumCells(call.ret) = call.arg

\* the targets of 03_select_games.py alone do add up
C27_SelectGamesSumsToTarget ==
    (call.fn = "phase_targets"
        /\ call.arg \in {GAME_DISTRIBUTION[b] : b \in DOMAIN GAME_DISTRIBUTION}) =>
        SumCells(call.ret) = call.arg

----------------------------------------------------------------------------
(* 04_format_questions.py: the flag written and the counts printed *)

\* line 41: a row is counted private when int(p['hash_bucket']) >= 80
counted_private_04_format_questions(hash_bucket) == hash_bucket >= 80

\* C25: in 04_format_questions.py, for every bucket 0..99 the flag written to
\* the row is true exactly when the bucket is at least 80 as a number, which
\* is also when the printed private count includes the row.
C25_FormatQuestionsFlagNumeric ==
    (call.fn = "private" /\ call.arg.script = "04_format_questions") =>
        /\ call.ret <=> call.arg.hash_bucket >= 80
        /\ call.ret <=> counted_private_04_format_questions(call.arg.hash_bucket)

----------------------------------------------------------------------------
(* The merged question set of 06_create_questions.py: process_game_positions
   (148-178), process_puzzle_positions (181-235) and the private flag of main
   (line 324).  A question is built from one board: for a game position the
   row of positions.csv that 03_select_games.py wrote for it, for a puzzle the
   board after the first move of the solution. *)

\* one row of positions.csv: the full FEN and the bucket of calculate_pos_id
process_game_positions(board) ==
    [fen |-> BoardFen(board), source |-> "game",
     hash_bucket |-> position_key(board).hash_bucket]

\* lines 209-218: the bucket is computed from puzzle_fen = board.fen()
process_puzzle_positions(board) ==
    LET puzzle_fen == BoardFen(board)
    IN  [fen |-> puzzle_fen, source |-> "puzzle",
         hash_bucket |-> hash_bucket_of(puzzle_fen)]

QuestionSources == {"game", "puzzle"}

\* the question and the flag main writes for it
merged_question(source, board) ==
    LET question == IF source = "game" THEN process_game_positions(board)
                    ELSE process_puzzle_positions(board)
    IN  [fen |-> question.fen, source |-> source, hash_bucket |-> question.hash_bucket,
         private |-> private_06_create_questions(question.hash_bucket)]

CallMerge ==
    /\ call = NoCall
    /\ \E source \in QuestionSources, board \in KeyBoards :
          call' = [fn |-> "merged_question", arg |-> [source |-> source, board |-> board],
                   ret |-> merged_question(source, board)]
    /\ UNCHANGED selVars

SpecMerge == Init /\ [][CallMerge]_vars

\* C26: the bucket of every merged question, puzzle or game, is the hash of
\* the canonical four-field key of its position mod 100, and every question
\* of either source with the same canonical key has the same bucket and the
\* same private flag.
C26_BucketFromCanonicalKey ==
    call.fn = "merged_question" =>
        LET board == call.arg.board
        IN  /\ call.ret.hash_bucket = hash_bucket_of(get_fen4(board))
            /\ \A source \in QuestionSources, halfmove \in {0, 1}, fullmove \in {1, 2} :
                  LET other == merged_question(source,
                                   [board EXCEPT !.halfmove = halfmove, !.fullmove = fullmove])
                  IN  /\ other.hash_bucket = call.ret.hash_bucket
                      /\ other.private = call.ret.private

\* the game-derived questions alone do carry the bucket of their key
C26_GameBucketFromCanonicalKey ==
    (call.fn = "merged_question" /\ call.arg.source = "game") =>
        call.ret.hash_bucket = hash_bucket_of(get_fen4(call.arg.board))

----------------------------------------------------------------------------
(* 02_process.py: create_database (133-181) and main (184-256).  games.pgn
   exists and is the same file in every run; output/games.db keeps its
   committed rows between runs. *)

NumPgnGames == 4
MaxProcRuns == 2

\* games.pgn as the sequence of should_keep_game(game) of its games
PgnFiles == UNION {[1..n -> BOOLEAN] : n \in 0..NumPgnGames}

\* f"game_{filtered_count:06d}"
GameId(n) == <<"game", n>>

\* line 224: a number computed from the game id alone
RandKey(game_id) == <<"rand", game_id>>

GameRow(n, pgn_offset) ==
    [game_id |-> GameId(n), pgn_offset |-> pgn_offset, rand_key |-> RandKey(GameId(n))]

\* the primary keys an INSERT collides with: committed rows and rows of the
\* open transaction
StoredIds == {r.game_id : r \in games_db \cup p_inserted}

\* line 191: sqlite3.connect creates the file; CREATE TABLE IF NOT EXISTS
\* keeps the rows of an existing table
ProcStart ==
    /\ p_pc = "idle"
    /\ p_runs < MaxProcRuns
    /\ p_pc' = "read"
    /\ p_runs' = p_runs + 1
    /\ p_exit' = -1
    /\ game_count' = 0
    /\ filtered_count' = 0
    /\ p_inserted' = {}
    /\ UNCHANGED <<games_pgn, games_db, posVars, call, evalVars, orchVars>>

\* One pass of the while loop of lines 202-244 on a game that was read.  The
\* INSERT of line 227 raises sqlite3.IntegrityError when the game_id is
\* already a primary key of the table; nothing catches it, the script ends
\* with a traceback and the open transaction is never committed.
ProcRead ==
    /\ p_pc = "read"
    /\ game_count < Len(games_pgn)
    /\ game_count' = game_count + 1
    /\ IF ~games_pgn[game_count + 1]
       THEN UNCHANGED <<games_db, p_pc, filtered_count, p_inserted, p_exit>>
       ELSE IF GameId(filtered_count) \in StoredIds
       THEN /\ p_pc' = "idle"
            /\ p_exit' = 1
            /\ p_inserted' = {}
            /\ UNCHANGED <<games_db, filtered_count>>
       ELSE /\ p_inserted' = p_inserted \cup {GameRow(filtered_count, game_count + 1)}
            /\ filtered_count' = filtered_count + 1
            /\ UNCHANGED <<games_db, p_pc, p_exit>>
    /\ UNCHANGED <<games_pgn, p_runs, posVars, call, evalVars, orchVars>>

\* read_game returns None: break, conn.commit(), conn.close()
ProcFinish ==
    /\ p_pc = "read"
    /\ game_count = Len(games_pgn)
    /\ games_db' = games_db \cup p_inserted
    /\ p_inserted' = {}
    /\ p_pc' = "idle"
    /\ p_exit' = 0
    /\ UNCHANGED <<games_pgn, game_count, filtered_count, p_runs, posVars, call,
                   evalVars, orchVars>>

InitProcess ==
    /\ SelInit /\ call = NoCall /\ questions_csv = NoFile /\ EvalIdle /\ OrchIdle
    /\ ProcIdle /\ games_pgn \in PgnFiles

NextProcess == ProcStart \/ ProcRead \/ ProcFinish

SpecProcess == InitProcess /\ [][NextProcess]_vars

----------------------------------------------------------------------------
(* Properties of the corpus-filtering step *)

RECURSIVE KeptBefore(_)
\* the number of kept games among the first n games of games.pgn
KeptBefore(n) ==
    IF n = 0 THEN 0 ELSE KeptBefore(n - 1) + (IF games_pgn[n] THEN 1 ELSE 0)

\* one row per kept game, numbered in file order
StoreOfCorpus ==
    {GameRow(KeptBefore(n - 1), n) : n \in {m \in 1..Len(games_pgn) : games_pgn[m]}}

\* C28: a second run over the populated store returns with status 0 and
\* leaves exactly one row per kept game, with the id and the sort key of the
\* first run.
C28_RerunKeepsStore ==
    (p_runs = 2 /\ p_pc = "idle") => (p_exit = 0 /\ games_db = StoreOfCorpus)

\* the first run does fill the store with one row per kept game
C28_FirstRunFillsStore ==
    (p_runs = 1 /\ p_pc = "idle") => (p_exit = 0 /\ games_db = StoreOfCorpus)

----------------------------------------------------------------------------
(* Properties of the pending buffer of the selection stage *)

\* the identifiers accepted by the current run, from existing_pos_ids
AcceptedIds == existing_pos_ids \ load_ids(SubSeq(csv, 1, rows_at_start))

\* the identifiers of the rows the current run has appended
AppendedIds == {RowPosId(csv[i]) : i \in (rows_at_start + 1)..Len(csv)}

BufferIds == {new_positions[i].pos_id : i \in 1..Len(new_positions)}

InRun == pc \in {"for", "while"}

BufferAccounting ==
    /\ AcceptedIds = BufferIds \cup AppendedIds
    /\ Cardinality(AppendedIds) = Len(csv) - rows_at_start
    /\ Cardinality(BufferIds) = Len(new_positions)
    /\ Len(new_positions) <= 9

----------------------------------------------------------------------------
(* check_questions_status, generate.py 82-109, and the test of step 4
   (lines 208-211), over questions.csv files given row by row *)

MaxStatusRows == 3

\* a JSON object that is not empty, and a text that is no JSON
DICT_TEXT == "{\"a2a3\":30}"
NO_JSON_TEXT == "n/a"

OutputTexts == {"", "{}", EMPTY_LIST_TEXT, TABLE_TEXT, DICT_TEXT, NO_JSON_TEXT}

\* questions.csv: absent, or the expected_output of each data row
StatusFiles ==
    {NoFile} \cup
    UNION {{[exists |-> TRUE, rows |-> rows] : rows \in [1..n -> OutputTexts]} :
              n \in 0..MaxStatusRows}

\* json.loads(text) as far as lines 102-104 look at it
json_loads(text) ==
    CASE text = TABLE_TEXT -> [raised |-> FALSE, is_list |-> TRUE, len |-> 1]
      [] text = EMPTY_LIST_TEXT -> [raised |-> FALSE, is_list |-> TRUE, len |-> 0]
      [] text = "{}" -> [raised |-> FALSE, is_list |-> FALSE, len |-> 0]
      [] text = DICT_TEXT -> [raised |-> FALSE, is_list |-> FALSE, len |-> 1]
      [] OTHER -> [raised |-> TRUE, is_list |-> FALSE, len |-> 0]

\* the test lines 96-104 apply to a row
has_evaluation(expected_output) ==
    /\ expected_output # ""
    /\ expected_output # "{}"
    /\ LET data == json_loads(expected_output)
       IN  ~data.raised /\ data.is_list /\ data.len > 0

\* Returns [has_evals, question_count]; only rows[0] is looked at
check_questions_status(file) ==
    IF ~file.exists THEN [has_evals |-> FALSE, question_count |-> 0]
    ELSE LET rows == file.rows
         IN  IF rows = <<>> THEN [has_evals |-> FALSE, question_count |-> 0]
             ELSE LET first_row == rows[1]
                  IN  IF has_evaluation(first_row)
                      THEN [has_evals |-> TRUE, question_count |-> Len(rows)]
                      ELSE [has_evals |-> FALSE, question_count |-> Len(rows)]

\* lines 208-211: step 4 is reported "already complete" and nothing is run
step4_already_complete(status, force_all) == status.has_evals /\ ~force_all

CallStatus ==
    /\ call = NoCall
    /\ \E file \in StatusFiles, force_all \in BOOLEAN :
          LET status == check_questions_status(file)
          IN  call' = [fn |-> "check_questions_status",
                       arg |-> [file |-> file, force_all |-> force_all],
                       ret |-> [has_evals |-> status.has_evals,
                                question_count |-> status.question_count,
                                already_complete |->
                                    step4_already_complete(status, force_all)]]
    /\ UNCHANGED selVars

SpecStatus == Init /\ [][CallStatus]_vars

\* C30: step 4 is reported already complete only for a questions.csv in which
\* every row holds a non-empty evaluation list.
C30_CompleteOnlyWhenAllEvaluated ==
    (call.fn = "check_questions_status" /\ call.ret.already_complete) =>
        /\ call.arg.file.exists
        /\ \A k \in 1..Len(call.arg.file.rows) :
              LET data == json_loads(call.arg.file.rows[k])
              IN  ~data.raised /\ data.is_list /\ data.len > 0

\* what does hold: the first row of a file reported complete is evaluated
C30_CompleteWhenFirstRowEvaluated ==
    (call.fn = "check_questions_status" /\ call.ret.already_complete) =>
        /\ call.arg.file.exists
        /\ call.arg.file.rows # <<>>
        /\ has_evaluation(call.arg.file.rows[1])

====
